---- MODULE Spec2Model ----
(***************************************************************************)
(* State-machine model of the migration job: MigrationJob.setup() (the     *)
(* task graph builder) and MigrationJob.retrieveRecords() with             *)
(* MigrationJobTask.retrieveRecords() (the multi-pass retrieval and the    *)
(* identifier indices).                                                    *)
(***************************************************************************)
EXTENDS Integers, Sequences, FiniteSets, TLC

\* ------------------------------------------------------------------------
\* Bounds of the model
\* ------------------------------------------------------------------------
\* how many descriptor declarations (a read-only operation, a parent lookup,
\* a parent master-detail, an allRecords flag, a limited query) one script of
\* the task graph builder carries
MaxDeclarations == 2

\* how many settings of a retrieval job differ from the plain one (every entity
\* an Upsert with a simple external id and a filtered, unlimited query, both
\* endpoints orgs)
MaxFlags == 3

\* how many values one 'field IN (...)' query carries
MaxInValues == 2

\* how many rows the query of a limited entity (SELECT ... LIMIT n) returns
QueryLimit == 1

\* ------------------------------------------------------------------------
\* Program constants
\* ------------------------------------------------------------------------
\* for (let iteration = 0; iteration < 10 && swapped; iteration++)
MaxIterations == 10

\* CONSTANTS.RECORD_TYPE_SOBJECT_NAME
RECORD_TYPE_SOBJECT_NAME == "RecordType"

\* the entity names scripts are written over
SObjectNames == {"RecordType", "Account", "Contact", "Case"}

\* ------------------------------------------------------------------------
\* Array helpers (JavaScript arrays are zero-based; sequences are one-based)
\* ------------------------------------------------------------------------
\* array[i]
At(array, i) == array[i + 1]

\* array.indexOf(x): the first index of x, -1 when absent
IndexOf(array, x) ==
    IF \E i \in 1..Len(array) : array[i] = x
    THEN (CHOOSE i \in 1..Len(array) :
            array[i] = x /\ \A j \in 1..(i - 1) : array[j] # x) - 1
    ELSE -1

\* array.splice(start, 0, x): start is clamped to the length
SpliceInsert(array, start, x) ==
    LET s == IF start > Len(array) THEN Len(array) ELSE start
    IN  SubSeq(array, 1, s) \o <<x>> \o SubSeq(array, s + 1, Len(array))

\* array.splice(start, 1); a start of -1 counts from the end
SpliceRemove(array, start) ==
    LET s == IF start < 0 THEN Len(array) + start ELSE start
    IN  IF s < 0 \/ s >= Len(array) THEN array
        ELSE SubSeq(array, 1, s) \o SubSeq(array, s + 2, Len(array))

\* the elements of an array
Elems(array) == {array[i] : i \in 1..Len(array)}

\* all subsets of S with at most k elements
RECURSIVE UpTo(_, _)
UpTo(S, k) ==
    IF k = 0 THEN {{}}
    ELSE LET prev == UpTo(S, k - 1)
         IN  prev \cup {s \cup {x} : s \in prev, x \in S}

\* all arrays that list every element of S once
RECURSIVE Permutations_(_)
Permutations_(S) ==
    IF S = {} THEN {<<>>}
    ELSE UNION {{<<x>> \o p : p \in Permutations_(S \ {x})} : x \in S}

VARIABLES
    objects,                        \* script.objects: the entity names, in declared order
    scriptObject,                   \* name -> the ScriptObject descriptor
    tasks,                          \* job.tasks: execution order (entity names)
    queryTasks,                     \* job.queryTasks: query order
    lowerIndexForAnyObjects,        \* setup(): local
    lowerIndexForReadonlyObjects,   \* setup(): local
    setupPc,                        \* position inside setup()
    objectIndex,                    \* forEach position over script.objects
    iteration,                      \* relaxation loop counter
    swapped,                        \* relaxation loop flag
    pass,                           \* locals of the running ___putMasterDetailsBefore
    sourceOrg,                      \* script.sourceOrg: its media and the rows it holds
    targetOrg,                      \* script.targetOrg: its media and the rows it holds
    sourceData,                     \* task -> sourceData.idRecordsMap / extIdRecordsMap
    targetData,                     \* task -> targetData.idRecordsMap / extIdRecordsMap
    step,                           \* which of the six loops of job.retrieveRecords runs
    index,                          \* its loop index over queryTasks
    call,                           \* locals of the running task.retrieveRecords
    inflight,                       \* queries sent to an endpoint and not yet answered
    callLog,                        \* the task.retrieveRecords calls made so far
    script,                         \* the settings of the script that are not per entity
    disk,                           \* path -> rows: the input files and the source directory
    valueMappingFile,               \* the rows of the value mapping file
    fieldMappingFile,               \* the rows of the field mapping file
    csvValuesMapping,               \* job.csvValuesMapping
    cachedCSVContent,               \* job.cachedCSVContent
    csvIssues,                      \* job.csvIssues
    csvPc,                          \* position inside processCSVFiles and its callees
    csvLog,                         \* the disk reads and writes made so far
    apiEngine                       \* task -> task.apiEngine, with the amount it was made for

setupVars == <<objects, scriptObject, tasks, queryTasks, lowerIndexForAnyObjects,
               lowerIndexForReadonlyObjects, setupPc, objectIndex, iteration,
               swapped, pass>>

retrieveVars == <<sourceOrg, targetOrg, sourceData, targetData, step, index, call,
                  inflight, callLog>>

csvVars == <<script, disk, valueMappingFile, fieldMappingFile, csvValuesMapping, cachedCSVContent, csvIssues,
             csvPc, csvLog>>

engineVars == <<apiEngine>>

vars == <<setupVars, retrieveVars, csvVars, engineVars>>

\* ------------------------------------------------------------------------
\* Entity descriptors
\* ------------------------------------------------------------------------
\* one declaration of a script: kind k about entity a (and entity or value b)
Decl(k, a, b) == [k |-> k, a |-> a, b |-> b]

\* the ScriptObject of entity name built from the declarations D
ScriptObject(name, D) ==
    [ operation |-> IF \E d \in D : d.k = "op" /\ d.a = name
                    THEN (CHOOSE d \in D : d.k = "op" /\ d.a = name).b
                    ELSE "Upsert",
      allRecords |-> Decl("all", name, "") \in D,
      isLimitedQuery |-> Decl("limited", name, "") \in D,
      hasComplexExternalId |-> Decl("complex", name, "") \in D,
      parentLookupObjects |-> {d.b : d \in {x \in D : x.k = "lookup" /\ x.a = name}},
      parentMasterDetailObjects |-> {d.b : d \in {x \in D : x.k = "md" /\ x.a = name}},
      processAllSource |-> FALSE,
      processAllTarget |-> FALSE ]

\* ScriptObject.isReadonlyObject
isReadonlyObject(so) == so.operation = "Readonly"

\* no entity has two operations
WellFormed(D) ==
    \A d, e \in D : (d.k = "op" /\ e.k = "op" /\ d.a = e.a) => d = e

\* ------------------------------------------------------------------------
\* MigrationJob.setup(): the task graph builder
\* ------------------------------------------------------------------------
\* objectToAdd.processAllSource / processAllTarget as setup() assigns them;
\* allRecords stands for allRecords || isSpecialObject || isObjectWithoutRelationships,
\* hasComplexExternalId for hasComplexExternalId || hasAutonumberExternalId
AssignProcessAll(so) ==
    IF so.allRecords
    THEN [so EXCEPT !.processAllSource = TRUE, !.processAllTarget = TRUE]
    ELSE [so EXCEPT !.processAllSource = FALSE,
                    !.processAllTarget = so.hasComplexExternalId]

\* ScanExistedTasks, but the scan keeps the first index it finds, the highest
RECURSIVE ScanExistedTasks_FirstFound(_, _, _, _, _, _)
ScanExistedTasks_FirstFound(ts, sos, name, existedTaskIndex, lower, indexToInsert) ==
    IF existedTaskIndex < lower THEN indexToInsert
    ELSE IF name \in sos[At(ts, existedTaskIndex)].parentLookupObjects
    THEN existedTaskIndex
    ELSE ScanExistedTasks_FirstFound(ts, sos, name, existedTaskIndex - 1, lower,
                                     indexToInsert)

\* the backward scan for (existedTaskIndex = length - 1; >= lowerIndexForAnyObjects; --)
RECURSIVE ScanExistedTasks(_, _, _, _, _, _)
ScanExistedTasks(ts, sos, name, existedTaskIndex, lower, indexToInsert) ==
    IF existedTaskIndex < lower THEN indexToInsert
    ELSE LET isObjectToAdd_ParentLookup ==
                 name \in sos[At(ts, existedTaskIndex)].parentLookupObjects
         IN  ScanExistedTasks(ts, sos, name, existedTaskIndex - 1, lower,
                 IF isObjectToAdd_ParentLookup THEN existedTaskIndex
                 ELSE indexToInsert)

\* the body of script.objects.forEach: where the new task goes.
\* st = [tasks, lowerAny, lowerReadonly]
PlaceObject(st, name, sos) ==
    IF name = RECORD_TYPE_SOBJECT_NAME
    THEN [ tasks |-> <<name>> \o st.tasks,
           lowerAny |-> st.lowerAny + 1,
           lowerReadonly |-> st.lowerReadonly + 1 ]
    ELSE IF isReadonlyObject(sos[name])
    THEN [ tasks |-> SpliceInsert(st.tasks, st.lowerReadonly, name),
           lowerAny |-> st.lowerAny + 1,
           lowerReadonly |-> st.lowerReadonly ]
    ELSE IF Len(st.tasks) = 0
    THEN [st EXCEPT !.tasks = <<name>>]
    ELSE [st EXCEPT !.tasks =
              SpliceInsert(st.tasks,
                  ScanExistedTasks(st.tasks, sos, name, Len(st.tasks) - 1,
                                   st.lowerAny, Len(st.tasks)),
                  name)]

\* MovePair, but the right task is put before the left one without being
\* taken out of its place
MovePair_Copy(ts, leftTask, rightTask, sos) ==
    LET rightIsParentMasterDetailOfLeft ==
            rightTask \in sos[leftTask].parentMasterDetailObjects
        leftTaskIndex == IndexOf(ts, leftTask)
    IN  IF rightIsParentMasterDetailOfLeft
        THEN [ tasks |-> SpliceInsert(ts, leftTaskIndex, rightTask),
               swapped |-> TRUE ]
        ELSE [ tasks |-> ts, swapped |-> FALSE ]

\* the body of the inner loop of ___putMasterDetailsBefore for one pair
\* (leftTask, rightTask) of tempTasks: the indices are read before the removal
MovePair(ts, leftTask, rightTask, sos) ==
    LET rightIsParentMasterDetailOfLeft ==
            rightTask \in sos[leftTask].parentMasterDetailObjects
        leftTaskIndex == IndexOf(ts, leftTask)
        rightTaskIndex == IndexOf(ts, rightTask)
    IN  IF rightIsParentMasterDetailOfLeft
        THEN [ tasks |-> SpliceInsert(SpliceRemove(ts, rightTaskIndex),
                                      leftTaskIndex, rightTask),
               swapped |-> TRUE ]
        ELSE [ tasks |-> ts, swapped |-> FALSE ]

\* QueryOrder, but the tasks are taken as they stand in job.tasks
QueryOrder_AsTasks(ts, sos) == ts

\* the query order: process-all-source or limited tasks first, then the rest
QueryOrder(ts, sos) ==
    LET first == SelectSeq(ts, LAMBDA t :
                     sos[t].processAllSource \/ sos[t].isLimitedQuery)
    IN  first \o SelectSeq(ts, LAMBDA t : IndexOf(first, t) < 0)

\* the job as constructed: empty indices, no retrieval call made
NoCall == [ pc |-> "idle", task |-> "", queryMode |-> "", reversed |-> FALSE,
            phase |-> "", queries |-> <<>>, queryIndex |-> 0, records |-> <<>>,
            newRecordsCount |-> 0 ]

EmptyData == [name \in SObjectNames |-> [idRecordsMap |-> <<>>, extIdRecordsMap |-> <<>>]]

RetrieveNotStarted ==
    /\ sourceData = EmptyData
    /\ targetData = EmptyData
    /\ step = 1
    /\ index = 0
    /\ call = NoCall
    /\ inflight = {}
    /\ callLog = <<>>

\* the CachedCSVContent of a job that has read nothing
EmptyCachedCSVContent ==
    [csvDataCacheMap |-> <<>>, updatedFilenames |-> {}, idCounter |-> 1]

\* the position of a job that is outside processCSVFiles: the task and field
\* (or file) its loops stand at, the issues of the running repairCSV, and
\* whether the job is the first or the second over the same files
NoCsvCall ==
    [ pc |-> "off", taskIndex |-> 0, fieldIndex |-> 0, noAbortPrompt |-> FALSE,
      issues |-> <<>>, run |-> 1 ]

\* the settings of a script that sets none of them: no bulk threshold, the
\* second version of the bulk protocol; script.sourceTargetFieldMapping is
\* empty until the field mapping file is loaded
NoScriptFlags ==
    [ importCSVFilesAsIs |-> FALSE, validateCSVFilesOnly |-> FALSE, bulkThreshold |-> 0,
      alwaysUseRestApiToUpdateRecords |-> FALSE, bulkApiVersionNumber |-> 2,
      sourceTargetFieldMapping |-> <<>> ]

CsvNotStarted ==
    /\ script = NoScriptFlags
    /\ apiEngine = <<>>
    /\ disk = <<>>
    /\ valueMappingFile = <<>>
    /\ fieldMappingFile = <<>>
    /\ csvValuesMapping = <<>>
    /\ cachedCSVContent = EmptyCachedCSVContent
    /\ csvIssues = <<>>
    /\ csvPc = NoCsvCall
    /\ csvLog = <<>>

NoPass == [tempTasks |-> <<>>, leftIndex |-> 0, rightIndex |-> 0, swapped |-> FALSE]

\* the scripts of the task graph builder: every entity, or every entity but
\* the classification entity, in any order, with at most MaxDeclarations
\* declarations among them
SetupDeclarations ==
    LET plain == SObjectNames \ {RECORD_TYPE_SOBJECT_NAME}
    IN  {Decl("op", a, "Readonly") : a \in plain}
        \cup {Decl("lookup", p[1], p[2]) : p \in {q \in plain \X plain : q[1] # q[2]}}
        \cup {Decl("md", p[1], p[2]) : p \in {q \in plain \X plain : q[1] # q[2]}}
        \cup {Decl("all", a, "") : a \in SObjectNames}
        \cup {Decl("limited", a, "") : a \in SObjectNames}

SetupObjectLists ==
    Permutations_(SObjectNames)
        \cup Permutations_(SObjectNames \ {RECORD_TYPE_SOBJECT_NAME})

InitSetup ==
    /\ objects \in SetupObjectLists
    /\ \E D \in UpTo(SetupDeclarations, MaxDeclarations) :
          scriptObject = [name \in SObjectNames |-> ScriptObject(name, D)]
    /\ tasks = <<>>
    /\ queryTasks = <<>>
    /\ lowerIndexForAnyObjects = 0
    /\ lowerIndexForReadonlyObjects = 0
    /\ setupPc = "place"
    /\ objectIndex = 0
    /\ iteration = 0
    /\ swapped = TRUE
    /\ pass = NoPass
    /\ RetrieveNotStarted
    /\ CsvNotStarted
    /\ sourceOrg = [media |-> "Org", rows |-> [name \in SObjectNames |-> <<>>]]
    /\ targetOrg = [media |-> "Org", rows |-> [name \in SObjectNames |-> <<>>]]

\* one turn of this.script.objects.forEach(objectToAdd => ...)
AddObject ==
    /\ setupPc = "place"
    /\ objectIndex < Len(objects)
    /\ LET objectToAdd == At(objects, objectIndex)
           sos == [scriptObject EXCEPT ![objectToAdd] = AssignProcessAll(@)]
           st == PlaceObject([ tasks |-> tasks,
                               lowerAny |-> lowerIndexForAnyObjects,
                               lowerReadonly |-> lowerIndexForReadonlyObjects ],
                             objectToAdd, sos)
       IN  /\ scriptObject' = sos
           /\ tasks' = st.tasks
           /\ lowerIndexForAnyObjects' = st.lowerAny
           /\ lowerIndexForReadonlyObjects' = st.lowerReadonly
    /\ objectIndex' = objectIndex + 1
    /\ setupPc' = IF objectIndex + 1 < Len(objects) THEN "place" ELSE "relax"
    /\ UNCHANGED <<objects, queryTasks, iteration, swapped, pass>>
    /\ UNCHANGED <<retrieveVars, csvVars, engineVars>>

\* entering ___putMasterDetailsBefore: tempTasks is a copy of the task list
BeginPass ==
    /\ setupPc = "relax"
    /\ iteration < MaxIterations /\ swapped
    /\ IF 0 < Len(tasks) - 1
       THEN /\ pass' = [ tempTasks |-> tasks, leftIndex |-> 0, rightIndex |-> 1,
                         swapped |-> FALSE ]
            /\ setupPc' = "pass"
            /\ UNCHANGED <<iteration, swapped>>
       ELSE /\ swapped' = FALSE
            /\ iteration' = iteration + 1
            /\ UNCHANGED <<pass, setupPc>>
    /\ UNCHANGED <<objects, scriptObject, tasks, queryTasks, lowerIndexForAnyObjects,
                   lowerIndexForReadonlyObjects, objectIndex>>
    /\ UNCHANGED <<retrieveVars, csvVars, engineVars>>

\* one pair (leftIndex, rightIndex) of the pass; after the last pair the pass
\* returns its flag to the relaxation loop
PairStep ==
    /\ setupPc = "pass"
    /\ LET n == Len(pass.tempTasks)
           m == MovePair(tasks, At(pass.tempTasks, pass.leftIndex),
                         At(pass.tempTasks, pass.rightIndex), scriptObject)
           sw == pass.swapped \/ m.swapped
       IN  /\ tasks' = m.tasks
           /\ IF pass.rightIndex + 1 < n
              THEN /\ pass' = [pass EXCEPT !.rightIndex = @ + 1, !.swapped = sw]
                   /\ UNCHANGED <<setupPc, iteration, swapped>>
              ELSE IF pass.leftIndex + 1 < n - 1
              THEN /\ pass' = [pass EXCEPT !.leftIndex = @ + 1,
                                           !.rightIndex = pass.leftIndex + 2,
                                           !.swapped = sw]
                   /\ UNCHANGED <<setupPc, iteration, swapped>>
              ELSE /\ pass' = [pass EXCEPT !.swapped = sw]
                   /\ swapped' = sw
                   /\ iteration' = iteration + 1
                   /\ setupPc' = "relax"
    /\ UNCHANGED <<objects, scriptObject, queryTasks, lowerIndexForAnyObjects,
                   lowerIndexForReadonlyObjects, objectIndex>>
    /\ UNCHANGED <<retrieveVars, csvVars, engineVars>>

\* the relaxation loop has ended: the query order is derived and setup() returns
CreateQueryOrder ==
    /\ setupPc = "relax"
    /\ ~(iteration < MaxIterations /\ swapped)
    /\ queryTasks' = QueryOrder(tasks, scriptObject)
    /\ setupPc' = "done"
    /\ UNCHANGED <<objects, scriptObject, tasks, lowerIndexForAnyObjects,
                   lowerIndexForReadonlyObjects, objectIndex, iteration, swapped, pass>>
    /\ UNCHANGED <<retrieveVars, csvVars, engineVars>>

NextSetup == AddObject \/ BeginPass \/ PairStep \/ CreateQueryOrder

SpecSetup == InitSetup /\ [][NextSetup]_vars

\* ------------------------------------------------------------------------
\* Properties of the task graph builder
\* ------------------------------------------------------------------------
\* the entities master-detail-reachable from the set S in at most n steps
RECURSIVE MasterDetailAncestors(_, _)
MasterDetailAncestors(S, n) ==
    IF n = 0 THEN S
    ELSE MasterDetailAncestors(
             S \cup UNION {scriptObject[e].parentMasterDetailObjects : e \in S}, n - 1)

\* the master-detail declarations of the job's entities have no cycle
MasterDetailAcyclic ==
    \A e \in Elems(objects) :
        e \notin MasterDetailAncestors(scriptObject[e].parentMasterDetailObjects,
                                       Cardinality(SObjectNames))

\* 0 for the classification entity, 1 for a read-only entity, 2 for the others
PrefixRank(name) ==
    IF name = RECORD_TYPE_SOBJECT_NAME THEN 0
    ELSE IF isReadonlyObject(scriptObject[name]) THEN 1 ELSE 2

\* the entities setup() has placed so far
PlacedObjects == {At(objects, i) : i \in 0..(objectIndex - 1)}

\* C35: at every step of setup(), job.tasks holds each entity placed so far
\* exactly once and nothing else; when setup() has completed it holds exactly
\* one task per entity of the script, for every order of the script and every
\* master-detail declaration, cyclic ones included
C35_OneTaskPerEntity ==
    /\ Len(tasks) = Cardinality(PlacedObjects)
    /\ Elems(tasks) = PlacedObjects
    /\ setupPc = "done" => Elems(tasks) = Elems(objects) /\ Len(tasks) = Len(objects)

\* setup() has completed on a master-detail cycle, after as many relaxation
\* passes as it allows, each of which moved a task
C35_Witness ==
    /\ setupPc = "done"
    /\ ~MasterDetailAcyclic
    /\ iteration = MaxIterations
    /\ swapped
    /\ Len(tasks) = Len(objects)

\* C1: when setup() has completed on acyclic master-detail declarations, every
\* master-detail parent in the job stands before its child in job.tasks.
C1_MasterDetailParentBeforeChild ==
    (setupPc = "done" /\ MasterDetailAcyclic) =>
        \A child \in Elems(tasks) :
            \A parent \in scriptObject[child].parentMasterDetailObjects \cap Elems(tasks) :
                IndexOf(tasks, parent) < IndexOf(tasks, child)

\* C2: when setup() has completed, job.tasks is the classification entity (if
\* declared), then the read-only entities, then all the others: no task stands
\* before a task of a lower rank.
C2_SpecialPrefix ==
    setupPc = "done" =>
        \A i, j \in 1..Len(tasks) :
            i < j => PrefixRank(tasks[i]) <= PrefixRank(tasks[j])

\* C27: in a pass, whenever the right task of the pair at hand is a
\* master-detail parent of the left task, the parent stands directly before
\* the child in job.tasks after the step
C27_ParentDirectlyBeforeChild ==
    [][ /\ setupPc = "pass"
        /\ At(pass.tempTasks, pass.rightIndex)
               \in scriptObject[At(pass.tempTasks, pass.leftIndex)].parentMasterDetailObjects
        => IndexOf(tasks', At(pass.tempTasks, pass.rightIndex)) + 1
               = IndexOf(tasks', At(pass.tempTasks, pass.leftIndex)) ]_vars

\* a task the first loop of the query order takes
TakenFirst(name) ==
    scriptObject[name].processAllSource \/ scriptObject[name].isLimitedQuery

\* C11: when setup() has completed, job.queryTasks holds every task of
\* job.tasks exactly once; no task that is neither process-all-source nor
\* limited-query stands before one that is; and two tasks of the same kind are
\* in the order they have in job.tasks.
C11_QueryOrder ==
    setupPc = "done" =>
        /\ Len(queryTasks) = Len(tasks)
        /\ Elems(queryTasks) = Elems(tasks)
        /\ \A i, j \in 1..Len(queryTasks) :
              i < j =>
                  /\ queryTasks[i] # queryTasks[j]
                  /\ TakenFirst(queryTasks[i]) \/ ~TakenFirst(queryTasks[j])
                  /\ TakenFirst(queryTasks[i]) = TakenFirst(queryTasks[j]) =>
                        IndexOf(tasks, queryTasks[i]) < IndexOf(tasks, queryTasks[j])

\* setup() has completed on a job in which a limited-query or process-all task
\* stands behind one that is neither, so that the query order differs from
\* job.tasks
C11_Witness ==
    /\ setupPc = "done"
    /\ queryTasks # tasks
    /\ \E i, j \in 1..Len(tasks) :
          i < j /\ ~TakenFirst(tasks[i]) /\ TakenFirst(tasks[j])

\* the indices, at or after the special prefix, of the placed tasks whose
\* parent lookups name the entity
LookupChildIndices(name) ==
    {i \in lowerIndexForAnyObjects..(Len(tasks) - 1) :
        name \in scriptObject[At(tasks, i)].parentLookupObjects}

\* the lowest of a non-empty set of indices
Lowest(S) == CHOOSE i \in S : \A j \in S : i <= j

\* C12: a turn of the placement loop that adds an entity which is neither the
\* classification entity nor read-only to a non-empty job.tasks inserts it
\* immediately before the lowest-indexed task, at or after the special prefix,
\* whose parent lookups name it, or after the last task when there is none;
\* the other tasks keep their order.
C12_PlacementBeforeLookupChild ==
    [][( /\ setupPc = "place"
         /\ objectIndex' = objectIndex + 1
         /\ At(objects, objectIndex) # RECORD_TYPE_SOBJECT_NAME
         /\ ~isReadonlyObject(scriptObject[At(objects, objectIndex)])
         /\ Len(tasks) > 0 )
       => LET objectToAdd == At(objects, objectIndex)
              children == LookupChildIndices(objectToAdd)
              indexToInsert == IF children = {} THEN Len(tasks) ELSE Lowest(children)
          IN  /\ Len(tasks') = Len(tasks) + 1
              /\ At(tasks', indexToInsert) = objectToAdd
              /\ \A i \in 0..(Len(tasks) - 1) :
                    At(tasks', IF i < indexToInsert THEN i ELSE i + 1) = At(tasks, i)]_vars

\* Contact, which looks up Account, was declared first and Account second:
\* Account has been inserted before Contact
C12_Witness ==
    /\ setupPc = "place"
    /\ objectIndex = 2
    /\ objects[1] = "Contact"
    /\ objects[2] = "Account"
    /\ "Account" \in scriptObject["Contact"].parentLookupObjects
    /\ ~isReadonlyObject(scriptObject["Contact"])
    /\ ~isReadonlyObject(scriptObject["Account"])
    /\ tasks = <<"Account", "Contact">>

\* ------------------------------------------------------------------------
\* setup() run to completion (the state retrieval starts from)
\* ------------------------------------------------------------------------
RECURSIVE PlaceAll(_, _, _, _)
PlaceAll(st, sos, objs, i) ==
    IF i >= Len(objs) THEN [st |-> st, sos |-> sos]
    ELSE LET name == At(objs, i)
             sos2 == [sos EXCEPT ![name] = AssignProcessAll(@)]
         IN  PlaceAll(PlaceObject(st, name, sos2), sos2, objs, i + 1)

\* the pairs of one pass from (leftIndex, rightIndex) on
RECURSIVE RunPairs(_, _, _)
RunPairs(ts, p, sos) ==
    LET n == Len(p.tempTasks)
        m == MovePair(ts, At(p.tempTasks, p.leftIndex), At(p.tempTasks, p.rightIndex), sos)
        sw == p.swapped \/ m.swapped
    IN  IF p.rightIndex + 1 < n
        THEN RunPairs(m.tasks, [p EXCEPT !.rightIndex = @ + 1, !.swapped = sw], sos)
        ELSE IF p.leftIndex + 1 < n - 1
        THEN RunPairs(m.tasks, [p EXCEPT !.leftIndex = @ + 1,
                                         !.rightIndex = p.leftIndex + 2,
                                         !.swapped = sw], sos)
        ELSE [tasks |-> m.tasks, pass |-> [p EXCEPT !.swapped = sw]]

\* the relaxation loop from iteration it on
RECURSIVE RunPasses(_, _, _, _, _)
RunPasses(ts, it, sw, p, sos) ==
    IF ~(it < MaxIterations /\ sw)
    THEN [tasks |-> ts, iteration |-> it, swapped |-> sw, pass |-> p]
    ELSE IF 0 < Len(ts) - 1
    THEN LET r == RunPairs(ts, [ tempTasks |-> ts, leftIndex |-> 0, rightIndex |-> 1,
                                 swapped |-> FALSE ], sos)
         IN  RunPasses(r.tasks, it + 1, r.pass.swapped, r.pass, sos)
    ELSE RunPasses(ts, it + 1, FALSE, p, sos)

\* the job after setup() on the script (objs, sos)
RunSetup(objs, sos) ==
    LET placed == PlaceAll([tasks |-> <<>>, lowerAny |-> 0, lowerReadonly |-> 0],
                           sos, objs, 0)
        relaxed == RunPasses(placed.st.tasks, 0, TRUE, NoPass, placed.sos)
    IN  [ scriptObject |-> placed.sos,
          tasks |-> relaxed.tasks,
          queryTasks |-> QueryOrder(relaxed.tasks, placed.sos),
          lowerIndexForAnyObjects |-> placed.st.lowerAny,
          lowerIndexForReadonlyObjects |-> placed.st.lowerReadonly,
          iteration |-> relaxed.iteration,
          swapped |-> relaxed.swapped,
          pass |-> relaxed.pass ]

\* the step-by-step setup() and its run to completion agree
SetupRunAgrees ==
    setupPc = "done" =>
        LET job == RunSetup(objects, scriptObject)
        IN  /\ tasks = job.tasks
            /\ queryTasks = job.queryTasks
            /\ scriptObject = job.scriptObject
            /\ lowerIndexForAnyObjects = job.lowerIndexForAnyObjects
            /\ lowerIndexForReadonlyObjects = job.lowerIndexForReadonlyObjects
            /\ iteration = job.iteration
            /\ swapped = job.swapped
            /\ pass = job.pass

\* ------------------------------------------------------------------------
\* Field descriptors and rows
\* ------------------------------------------------------------------------
\* the entities of the retrieval jobs
RetrieveNames == {"Account", "Contact", "Case"}

\* CONSTANTS.NOT_TO_USE_IN_FILTERED_QUERYIN_CLAUSE
NOT_TO_USE_IN_FILTERED_QUERYIN_CLAUSE == {"RecordType", "User", "Group"}

\* an SFieldDescribe of the query of entity owner
SField(owner, name, ref, ext) ==
    [ scriptObject |-> owner, name |-> name, referencedObjectType |-> ref,
      isExternalIdField |-> ext ]

\* task.data.fieldsInQueryMap.values(), in query order: Account refers to itself,
\* Contact to Account, Case to Contact and to Account; Name is the external id
fieldsInQuery(name) ==
    <<SField(name, "Id", "", FALSE), SField(name, "Name", "", TRUE)>> \o
    ( CASE name = "Account" -> <<SField(name, "ParentId", "Account", FALSE)>>
        [] name = "Contact" -> <<SField(name, "AccountId", "Account", FALSE)>>
        [] name = "Case" -> << SField(name, "ContactId", "Contact", FALSE),
                               SField(name, "AccountId", "Account", FALSE) >>
        [] OTHER -> <<>> )

\* SFieldDescribe.isSimple, isSimpleReference, isSimpleSelfReference
isSimple(field) == field.referencedObjectType = ""
isSimpleReference(field) == field.referencedObjectType # ""
isSimpleSelfReference(field) ==
    isSimpleReference(field) /\ field.referencedObjectType = field.scriptObject

\* ChildIdSFields, but of the lookups of Contact only
ChildIdSFields_ContactOnly(name) ==
    SelectSeq(fieldsInQuery("Contact"), LAMBDA f :
        f.referencedObjectType = name /\ "Contact" # name)

\* for an entity, the id fields of the other entities' lookups to it
\* (field.child__rSFields.map(f => f.idSField) over its fields)
ChildIdSFields(name) ==
    LET of(child) == SelectSeq(fieldsInQuery(child), LAMBDA f :
                         f.referencedObjectType = name /\ child # name)
    IN  of("Account") \o of("Contact") \o of("Case")

\* the lookups of the field descriptors, as declarations of the script
SchemaDeclarations ==
    UNION { {Decl("lookup", name, fieldsInQuery(name)[i].referencedObjectType) :
                i \in {j \in 1..Len(fieldsInQuery(name)) :
                          isSimpleReference(fieldsInQuery(name)[j])}} :
            name \in RetrieveNames }

\* a record of an endpoint
Row(id, name, parentId, accountId, contactId) ==
    [ Id |-> id, Name |-> name, ParentId |-> parentId, AccountId |-> accountId,
      ContactId |-> contactId ]

\* the rows a source org holds: identifiers are unique, names need not be
SourceOrgRows ==
    [name \in SObjectNames |->
        CASE name = "Account" -> << Row("a1", "N1", "a2", "", ""),
                                    Row("a2", "N1", "a4", "", ""),
                                    Row("a3", "N2", "a3", "", ""),
                                    Row("a4", "N3", "", "", "") >>
          [] name = "Contact" -> << Row("c1", "N1", "", "a1", ""),
                                    Row("c2", "N1", "", "a2", ""),
                                    Row("c3", "", "", "", "") >>
          [] name = "Case" -> << Row("k1", "N1", "", "", "c1"),
                                 Row("k2", "N2", "", "a3", "c2"),
                                 Row("k3", "N2", "", "", "c3") >>
          [] OTHER -> <<>> ]

\* the rows of source files: a file may repeat an Id, and may lack one
SourceFileRows ==
    [name \in SObjectNames |->
        CASE name = "Account" -> << Row("a1", "N1", "a2", "", ""),
                                    Row("a1", "N2", "", "", ""),
                                    Row("", "N3", "", "", ""),
                                    Row("a2", "N2", "", "", "") >>
          [] name = "Contact" -> << Row("c1", "N1", "", "", ""),
                                    Row("c1", "N2", "", "a1", ""),
                                    Row("c1", "N3", "", "", ""),
                                    Row("c2", "", "", "a2", "") >>
          [] name = "Case" -> << Row("k1", "N1", "", "a1", "c1"),
                                 Row("", "N1", "", "a2", "c2") >>
          [] OTHER -> <<>> ]

\* the rows a target org holds
TargetOrgRows ==
    [name \in SObjectNames |->
        CASE name = "Account" -> << Row("A1", "N1", "", "", ""),
                                    Row("A2", "N1", "", "", ""),
                                    Row("A3", "N9", "", "", "") >>
          [] name = "Contact" -> << Row("C1", "N1", "", "A1", ""),
                                    Row("C2", "N7", "", "A2", "") >>
          [] name = "Case" -> << Row("K1", "N2", "", "A1", "C1"),
                                 Row("K2", "N2", "", "A1", "C1") >>
          [] OTHER -> <<>> ]

\* ------------------------------------------------------------------------
\* Map<K, V>: entries in insertion order
\* ------------------------------------------------------------------------
MapHas(map, key) == \E i \in 1..Len(map) : map[i].key = key

MapGet(map, key) == map[CHOOSE i \in 1..Len(map) : map[i].key = key].value

\* Map.set: a known key keeps its position
MapSet(map, key, value) ==
    IF MapHas(map, key)
    THEN [i \in 1..Len(map) |->
             IF map[i].key = key THEN [key |-> key, value |-> value] ELSE map[i]]
    ELSE Append(map, [key |-> key, value |-> value])

MapKeys(map) == [i \in 1..Len(map) |-> map[i].key]

MapValues(map) == [i \in 1..Len(map) |-> map[i].value]

\* Common.distinctStringArray: the first occurrence of each value
distinctStringArray(array) ==
    LET kept == SelectSeq([i \in 1..Len(array) |->
                     [v |-> array[i],
                      first |-> \A j \in 1..(i - 1) : array[j] # array[i]]],
                     LAMBDA e : e.first)
    IN  [i \in 1..Len(kept) |-> kept[i].v]

\* the concatenation of an array of arrays
RECURSIVE Concat(_)
Concat(arrays) ==
    IF arrays = <<>> THEN <<>> ELSE Head(arrays) \o Concat(Tail(arrays))

\* ------------------------------------------------------------------------
\* MigrationJobTask.retrieveRecords(): the identifier indices
\* ------------------------------------------------------------------------
\* self.getRecordValue(record, self.complexExternalId)
getRecordValue(record) == record.Name

\* SetExtIdRecord, but a value already in the index keeps its identifier
SetExtIdRecord_KeepFirst(extIdRecordsMap, record) ==
    LET value == record.Name
    IN  IF value # "" /\ ~MapHas(extIdRecordsMap, value)
        THEN MapSet(extIdRecordsMap, value, record.Id)
        ELSE extIdRecordsMap

\* ___setExternalIdMap, one record: the external-id index
SetExtIdRecord(extIdRecordsMap, record) ==
    LET value == getRecordValue(record)
    IN  IF value # "" THEN MapSet(extIdRecordsMap, value, record.Id)
        ELSE extIdRecordsMap

\* SetIdRecord, but without the has() test on the set: a known identifier gets
\* the later record
SetIdRecord_Overwrite(acc, record) ==
    IF record.Id # ""
    THEN [ idRecordsMap |-> MapSet(acc.idRecordsMap, record.Id, record),
           newRecordsCount |-> IF MapHas(acc.idRecordsMap, record.Id)
                               THEN acc.newRecordsCount
                               ELSE acc.newRecordsCount + 1 ]
    ELSE acc

\* SetIdRecord, but the count is raised outside the has() test
SetIdRecord_CountKnown(acc, record) ==
    IF record.Id # ""
    THEN [ idRecordsMap |-> IF MapHas(acc.idRecordsMap, record.Id)
                            THEN acc.idRecordsMap
                            ELSE MapSet(acc.idRecordsMap, record.Id, record),
           newRecordsCount |-> acc.newRecordsCount + 1 ]
    ELSE acc

\* SetIdRecord, but without the test of record["Id"]: a record without an
\* identifier is stored under the empty key
SetIdRecord_AnyId(acc, record) ==
    IF ~MapHas(acc.idRecordsMap, record.Id)
    THEN [ idRecordsMap |-> MapSet(acc.idRecordsMap, record.Id, record),
           newRecordsCount |-> acc.newRecordsCount + 1 ]
    ELSE acc

\* ___setExternalIdMap, one record: the identifier index and the count.
\* acc = [idRecordsMap, newRecordsCount]
SetIdRecord(acc, record) ==
    IF record.Id # ""
    THEN IF ~MapHas(acc.idRecordsMap, record.Id)
         THEN [ idRecordsMap |-> MapSet(acc.idRecordsMap, record.Id, record),
                newRecordsCount |-> acc.newRecordsCount + 1 ]
         ELSE acc
    ELSE acc

\* records.forEach(...) of ___setExternalIdMap from record i on
RECURSIVE setExternalIdMapFrom(_, _, _)
setExternalIdMapFrom(records, i, acc) ==
    IF i > Len(records) THEN acc
    ELSE LET ids == SetIdRecord([ idRecordsMap |-> acc.idRecordsMap,
                                  newRecordsCount |-> acc.newRecordsCount ],
                                records[i])
         IN  setExternalIdMapFrom(records, i + 1,
                 [ extIdRecordsMap |-> SetExtIdRecord(acc.extIdRecordsMap, records[i]),
                   idRecordsMap |-> ids.idRecordsMap,
                   newRecordsCount |-> ids.newRecordsCount ])

\* ___setExternalIdMap(records, extIdRecordsMap, idRecordsMap)
setExternalIdMap(records, extIdRecordsMap, idRecordsMap) ==
    setExternalIdMapFrom(records, 1,
        [ extIdRecordsMap |-> extIdRecordsMap, idRecordsMap |-> idRecordsMap,
          newRecordsCount |-> 0 ])

\* ------------------------------------------------------------------------
\* Queries
\* ------------------------------------------------------------------------
\* task.createQuery(): the entity's own query
createQuery(name) ==
    [ kind |-> "all", sObjectName |-> name, field |-> "", inValues |-> <<>>,
      limited |-> scriptObject[name].isLimitedQuery ]

\* the query that reads the entity's source CSV file
csvQuery(name) ==
    [ kind |-> "csv", sObjectName |-> name, field |-> "", inValues |-> <<>>,
      limited |-> FALSE ]

\* Common.createFieldInQueries: one query per MaxInValues values
RECURSIVE createFieldInQueries(_, _, _)
createFieldInQueries(fieldName, name, inValues) ==
    IF inValues = <<>> THEN <<>>
    ELSE LET n == IF Len(inValues) < MaxInValues THEN Len(inValues) ELSE MaxInValues
         IN  << [ kind |-> "in", sObjectName |-> name, field |-> fieldName,
                  inValues |-> SubSeq(inValues, 1, n), limited |-> FALSE ] >>
             \o createFieldInQueries(fieldName, name,
                                     SubSeq(inValues, n + 1, Len(inValues)))

\* Sfdx.retrieveRecordsAsync(query): the rows of the endpoint the query selects
retrieveRecordsAsync(query, org) ==
    LET rows == org.rows[query.sObjectName]
    IN  CASE query.kind = "in" ->
                 SelectSeq(rows, LAMBDA r : \E i \in 1..Len(query.inValues) :
                                               r[query.field] = query.inValues[i])
          [] query.kind = "all" /\ query.limited ->
                 SubSeq(rows, 1, IF Len(rows) < QueryLimit THEN Len(rows) ELSE QueryLimit)
          [] OTHER -> rows

\* prevTasks / nextTasks of _createFilteredQueries
prevTasks(name) == {t \in Elems(tasks) : IndexOf(tasks, t) < IndexOf(tasks, name)}
nextTasks(name) == {t \in Elems(tasks) : IndexOf(tasks, t) > IndexOf(tasks, name)}

\* whether the index of the parent task feeds the query of a lookup field
ParentTaskFeedsQuery(queryMode, name, parent) ==
    IF queryMode # "forwards"
    THEN parent \in prevTasks(name)
    ELSE parent \in nextTasks(name)

\* the entries of fieldsToQueryMap, in insertion order
fieldsToQueryMap(name, queryMode, reversed) ==
    LET fields == fieldsInQuery(name)
        source(field) ==
            LET parent == field.referencedObjectType
            IN  IF /\ isSimpleReference(field)
                   /\ parent \notin NOT_TO_USE_IN_FILTERED_QUERYIN_CLAUSE
                   /\ (~scriptObject[parent].processAllSource
                         \/ scriptObject[parent].isLimitedQuery)
                   /\ ParentTaskFeedsQuery(queryMode, name, parent)
                THEN << [ field |-> field.name,
                          inValues |-> MapKeys(sourceData[parent].idRecordsMap) ] >>
                ELSE <<>>
        target(field) ==
            IF isSimple(field) /\ field.isExternalIdField
            THEN << [ field |-> field.name,
                      inValues |-> MapKeys(sourceData[name].extIdRecordsMap) ] >>
            ELSE <<>>
        childValues(field) ==
            LET recs == MapValues(sourceData[field.scriptObject].idRecordsMap)
                vals == [i \in 1..Len(recs) |-> recs[i][field.name]]
            IN  SelectSeq(vals, LAMBDA v : v # "")
        childFields == ChildIdSFields(name)
    IN  IF reversed
        THEN IF name \notin NOT_TO_USE_IN_FILTERED_QUERYIN_CLAUSE
             THEN << [ field |-> "Id",
                       inValues |-> distinctStringArray(Concat(
                           [i \in 1..Len(childFields) |-> childValues(childFields[i])])) ] >>
             ELSE <<>>
        ELSE IF queryMode # "target"
        THEN Concat([i \in 1..Len(fields) |-> source(fields[i])])
        ELSE Concat([i \in 1..Len(fields) |-> target(fields[i])])

\* fieldInQueries, but without the test on the length of inValues
fieldInQueries_Unguarded(fieldName, name, inValues) ==
    IF Len(inValues) > 0
    THEN createFieldInQueries(fieldName, name, inValues)
    ELSE << [ kind |-> "in", sObjectName |-> name, field |-> fieldName,
              inValues |-> <<>>, limited |-> FALSE ] >>

\* the body of fieldsToQueryMap.forEach: the queries of one entry
fieldInQueries(fieldName, name, inValues) ==
    IF Len(inValues) > 0
    THEN createFieldInQueries(fieldName, name, inValues)
    ELSE <<>>

\* task._createFilteredQueries(queryMode, reversed)
createFilteredQueries(name, queryMode, reversed) ==
    LET map == fieldsToQueryMap(name, queryMode, reversed)
    IN  ( IF queryMode # "target" /\ scriptObject[name].isLimitedQuery /\ ~reversed
          THEN <<createQuery(name)>> ELSE <<>> )
        \o Concat([i \in 1..Len(map) |->
                      fieldInQueries(map[i].field, name, map[i].inValues)])

\* the queries of the main source block of task.retrieveRecords
SourceQueries(name, queryMode, reversed) ==
    IF sourceOrg.media = "File" /\ queryMode = "forwards"
    THEN <<csvQuery(name)>>
    ELSE IF scriptObject[name].processAllSource /\ queryMode = "forwards"
    THEN <<createQuery(name)>>
    ELSE IF ~scriptObject[name].processAllSource
    THEN createFilteredQueries(name, queryMode, reversed)
    ELSE <<>>

\* the queries of the self-reference block
SelfReferenceQueries(name) ==
    LET fields == fieldsInQuery(name)
        recs == MapValues(sourceData[name].idRecordsMap)
        values(field) ==
            IF isSimpleSelfReference(field)
            THEN SelectSeq([i \in 1..Len(recs) |-> recs[i][field.name]],
                           LAMBDA v : v # "")
            ELSE <<>>
        inValues == Concat([i \in 1..Len(fields) |-> values(fields[i])])
    IN  IF Len(inValues) > 0
        THEN createFieldInQueries("Id", name, distinctStringArray(inValues))
        ELSE <<>>

\* TargetQueries, but without the test on the operation
TargetQueries_FetchForInsert(name, queryMode, reversed) ==
    IF targetOrg.media = "Org"
    THEN IF scriptObject[name].processAllTarget
         THEN <<createQuery(name)>>
         ELSE createFilteredQueries(name, queryMode, reversed)
    ELSE <<>>

\* the queries of the target block
TargetQueries(name, queryMode, reversed) ==
    IF targetOrg.media = "Org" /\ scriptObject[name].operation # "Insert"
    THEN IF scriptObject[name].processAllTarget
         THEN <<createQuery(name)>>
         ELSE createFilteredQueries(name, queryMode, reversed)
    ELSE <<>>

\* ------------------------------------------------------------------------
\* MigrationJob.retrieveRecords(): the six passes
\* ------------------------------------------------------------------------
\* PassMode, but the second backward loop is left out
PassMode_OneBackward(n) ==
    CASE n = 1 -> [queryMode |-> "forwards", reversed |-> FALSE]
      [] n = 2 -> [queryMode |-> "backwards", reversed |-> FALSE]
      [] n = 3 -> [queryMode |-> "forwards", reversed |-> TRUE]
      [] n = 4 -> [queryMode |-> "forwards", reversed |-> TRUE]
      [] OTHER -> [queryMode |-> "target", reversed |-> FALSE]

\* the arguments of task.retrieveRecords in the six loops, in program order
PassMode(n) ==
    CASE n = 1 -> [queryMode |-> "forwards", reversed |-> FALSE]
      [] n = 2 -> [queryMode |-> "backwards", reversed |-> FALSE]
      [] n = 3 -> [queryMode |-> "backwards", reversed |-> FALSE]
      [] n = 4 -> [queryMode |-> "forwards", reversed |-> TRUE]
      [] n = 5 -> [queryMode |-> "forwards", reversed |-> TRUE]
      [] OTHER -> [queryMode |-> "target", reversed |-> FALSE]

\* the number of loops over queryTasks
LastPass == 6

\* the task the loop at index i visits
LoopTask(i) == At(queryTasks, i)

\* IssueQuery, but every query is sent at once and the results are awaited
\* together
IssueQuery_AllAtOnce(queries, k) ==
    IF k = 0 THEN {[index |-> i - 1, query |-> queries[i]] : i \in 1..Len(queries)}
    ELSE {}

\* the queries sent when the fetch loop stands at index k: the loop awaits each
\* query before it sends the next
IssueQuery(queries, k) == {[index |-> k, query |-> queries[k + 1]]}

\* the settings a retrieval job may differ in from the plain one
RetrieveDeclarations ==
    {Decl("op", p[1], p[2]) : p \in RetrieveNames \X {"Readonly", "Insert", "Delete"}}
        \cup {Decl(p[1], p[2], "") : p \in {"all", "limited", "complex"} \X RetrieveNames}
        \cup {Decl("sourceFile", "", ""), Decl("targetFile", "", "")}

\* a job whose setup() has completed on a script over the three entities, in
\* any declared order; no retrieval has started
InitRetrieve ==
    /\ objects \in Permutations_(RetrieveNames)
    /\ \E D \in UpTo(RetrieveDeclarations, MaxFlags) :
          /\ WellFormed(D)
          /\ LET job == RunSetup(objects,
                     [name \in SObjectNames |->
                         ScriptObject(name, D \cup SchemaDeclarations)])
             IN  /\ scriptObject = job.scriptObject
                 /\ tasks = job.tasks
                 /\ queryTasks = job.queryTasks
                 /\ lowerIndexForAnyObjects = job.lowerIndexForAnyObjects
                 /\ lowerIndexForReadonlyObjects = job.lowerIndexForReadonlyObjects
                 /\ iteration = job.iteration
                 /\ swapped = job.swapped
                 /\ pass = job.pass
          /\ sourceOrg = IF Decl("sourceFile", "", "") \in D
                         THEN [media |-> "File", rows |-> SourceFileRows]
                         ELSE [media |-> "Org", rows |-> SourceOrgRows]
          /\ targetOrg = IF Decl("targetFile", "", "") \in D
                         THEN [media |-> "File", rows |-> [n \in SObjectNames |-> <<>>]]
                         ELSE [media |-> "Org", rows |-> TargetOrgRows]
    /\ setupPc = "done"
    /\ objectIndex = Len(objects)
    /\ RetrieveNotStarted
    /\ CsvNotStarted

\* task.retrieveRecords returns: the loop moves on, to the next loop after the
\* last task
Finish(frame, log) ==
    /\ call' = [frame EXCEPT !.pc = "idle"]
    /\ callLog' = [log EXCEPT ![Len(log)].completed = TRUE]
    /\ IF index + 1 < Len(queryTasks)
       THEN index' = index + 1 /\ step' = step
       ELSE index' = 0 /\ step' = step + 1

\* RetrieveRecords, but without the return for the Delete operation
RetrieveRecords_NoStatusCheck ==
    /\ setupPc = "done"
    /\ call.pc = "idle"
    /\ step <= LastPass
    /\ LET name == LoopTask(index)
           mode == PassMode(step)
           isDelete == FALSE
           queries == IF isDelete THEN <<>>
                      ELSE IF mode.queryMode # "target"
                      THEN SourceQueries(name, mode.queryMode, mode.reversed)
                      ELSE TargetQueries(name, mode.queryMode, mode.reversed)
           frame == [ pc |-> "await", task |-> name, queryMode |-> mode.queryMode,
                      reversed |-> mode.reversed,
                      phase |-> IF mode.queryMode # "target" THEN "main" ELSE "target",
                      queries |-> queries, queryIndex |-> 0, records |-> <<>>,
                      newRecordsCount |-> 0 ]
           log == Append(callLog, [ step |-> step, queryMode |-> mode.queryMode,
                                    reversed |-> mode.reversed, task |-> name,
                                    completed |-> FALSE ])
       IN  IF queries # <<>>
           THEN /\ call' = frame
                /\ inflight' = IssueQuery(queries, 0)
                /\ callLog' = log
                /\ UNCHANGED <<step, index>>
           ELSE IF isDelete \/ mode.queryMode = "target"
           THEN /\ Finish(frame, log)
                /\ UNCHANGED inflight
           ELSE /\ call' = [frame EXCEPT !.pc = "self"]
                /\ callLog' = log
                /\ UNCHANGED <<step, index, inflight>>
    /\ UNCHANGED <<csvVars, engineVars, setupVars, sourceOrg, targetOrg, sourceData, targetData>>

\* the loop calls task.retrieveRecords(queryMode, reversed): the call runs to
\* its first query, or to the self-reference block, or returns
RetrieveRecords ==
    /\ setupPc = "done"
    /\ call.pc = "idle"
    /\ step <= LastPass
    /\ LET name == LoopTask(index)
           mode == PassMode(step)
           isDelete == scriptObject[name].operation = "Delete"
           queries == IF isDelete THEN <<>>
                      ELSE IF mode.queryMode # "target"
                      THEN SourceQueries(name, mode.queryMode, mode.reversed)
                      ELSE TargetQueries(name, mode.queryMode, mode.reversed)
           frame == [ pc |-> "await", task |-> name, queryMode |-> mode.queryMode,
                      reversed |-> mode.reversed,
                      phase |-> IF mode.queryMode # "target" THEN "main" ELSE "target",
                      queries |-> queries, queryIndex |-> 0, records |-> <<>>,
                      newRecordsCount |-> 0 ]
           log == Append(callLog, [ step |-> step, queryMode |-> mode.queryMode,
                                    reversed |-> mode.reversed, task |-> name,
                                    completed |-> FALSE ])
       IN  IF queries # <<>>
           THEN /\ call' = frame
                /\ inflight' = IssueQuery(queries, 0)
                /\ callLog' = log
                /\ UNCHANGED <<step, index>>
           ELSE IF isDelete \/ mode.queryMode = "target"
           THEN /\ Finish(frame, log)
                /\ UNCHANGED inflight
           ELSE /\ call' = [frame EXCEPT !.pc = "self"]
                /\ callLog' = log
                /\ UNCHANGED <<step, index, inflight>>
    /\ UNCHANGED <<csvVars, engineVars, setupVars, sourceOrg, targetOrg, sourceData, targetData>>

\* ReceiveRecords, but the records of the self-reference block are merged into
\* the indices of the target
ReceiveRecords_SelfToTarget ==
    /\ call.pc = "await"
    /\ \E msg \in inflight :
          LET org == IF call.phase = "target" THEN targetOrg ELSE sourceOrg
              records == call.records \o retrieveRecordsAsync(msg.query, org)
              k == call.queryIndex + 1
              data == IF call.phase = "target" THEN targetData[call.task]
                      ELSE sourceData[call.task]
              merged == setExternalIdMap(records, data.extIdRecordsMap, data.idRecordsMap)
              frame == [call EXCEPT !.records = records, !.queryIndex = k]
          IN  IF k < Len(call.queries)
              THEN /\ call' = frame
                   /\ inflight' = (inflight \ {msg}) \cup IssueQuery(call.queries, k)
                   /\ UNCHANGED <<sourceData, targetData, step, index, callLog>>
              ELSE /\ inflight' = inflight \ {msg}
                   /\ IF call.phase # "main"
                      THEN /\ targetData' = [targetData EXCEPT ![call.task] =
                                  [ idRecordsMap |-> merged.idRecordsMap,
                                    extIdRecordsMap |-> merged.extIdRecordsMap ]]
                           /\ UNCHANGED sourceData
                      ELSE /\ sourceData' = [sourceData EXCEPT ![call.task] =
                                  [ idRecordsMap |-> merged.idRecordsMap,
                                    extIdRecordsMap |-> merged.extIdRecordsMap ]]
                           /\ UNCHANGED targetData
                   /\ IF call.phase = "main"
                      THEN /\ call' = [frame EXCEPT
                                          !.pc = "self",
                                          !.newRecordsCount = merged.newRecordsCount]
                           /\ UNCHANGED <<step, index, callLog>>
                      ELSE Finish([frame EXCEPT
                                      !.newRecordsCount = merged.newRecordsCount],
                                  callLog)
    /\ UNCHANGED <<csvVars, engineVars, setupVars, sourceOrg, targetOrg>>

\* an awaited query is answered: the loop sends the next query, or the fetch is
\* complete and ___setExternalIdMap merges the records
ReceiveRecords ==
    /\ call.pc = "await"
    /\ \E msg \in inflight :
          LET org == IF call.phase = "target" THEN targetOrg ELSE sourceOrg
              records == call.records \o retrieveRecordsAsync(msg.query, org)
              k == call.queryIndex + 1
              data == IF call.phase = "target" THEN targetData[call.task]
                      ELSE sourceData[call.task]
              merged == setExternalIdMap(records, data.extIdRecordsMap, data.idRecordsMap)
              frame == [call EXCEPT !.records = records, !.queryIndex = k]
          IN  IF k < Len(call.queries)
              THEN /\ call' = frame
                   /\ inflight' = (inflight \ {msg}) \cup IssueQuery(call.queries, k)
                   /\ UNCHANGED <<sourceData, targetData, step, index, callLog>>
              ELSE /\ inflight' = inflight \ {msg}
                   /\ IF call.phase = "target"
                      THEN /\ targetData' = [targetData EXCEPT ![call.task] =
                                  [ idRecordsMap |-> merged.idRecordsMap,
                                    extIdRecordsMap |-> merged.extIdRecordsMap ]]
                           /\ UNCHANGED sourceData
                      ELSE /\ sourceData' = [sourceData EXCEPT ![call.task] =
                                  [ idRecordsMap |-> merged.idRecordsMap,
                                    extIdRecordsMap |-> merged.extIdRecordsMap ]]
                           /\ UNCHANGED targetData
                   /\ IF call.phase = "main"
                      THEN /\ call' = [frame EXCEPT
                                          !.pc = "self",
                                          !.newRecordsCount = merged.newRecordsCount]
                           /\ UNCHANGED <<step, index, callLog>>
                      ELSE Finish([frame EXCEPT
                                      !.newRecordsCount = merged.newRecordsCount],
                                  callLog)
    /\ UNCHANGED <<csvVars, engineVars, setupVars, sourceOrg, targetOrg>>

\* the self-reference block after the main source block
SelfReference ==
    /\ call.pc = "self"
    /\ IF sourceOrg.media = "Org" /\ call.queryMode = "forwards"
       THEN LET queries == SelfReferenceQueries(call.task)
                frame == [call EXCEPT !.records = <<>>]
            IN  IF queries # <<>>
                THEN /\ call' = [frame EXCEPT !.pc = "await", !.phase = "self",
                                              !.queries = queries, !.queryIndex = 0]
                     /\ inflight' = IssueQuery(queries, 0)
                     /\ UNCHANGED <<step, index, callLog>>
                ELSE /\ Finish(frame, callLog)
                     /\ UNCHANGED inflight
       ELSE /\ Finish(call, callLog)
            /\ UNCHANGED inflight
    /\ UNCHANGED <<csvVars, engineVars, setupVars, sourceOrg, targetOrg, sourceData, targetData>>

NextRetrieve == RetrieveRecords \/ ReceiveRecords \/ SelfReference

SpecRetrieve == InitRetrieve /\ [][NextRetrieve]_vars

\* ------------------------------------------------------------------------
\* Properties of the index merge
\* ------------------------------------------------------------------------
\* the data of the endpoint the running call reads
CallData(source, target) ==
    IF call.phase = "target" THEN target[call.task] ELSE source[call.task]

\* the step at which ___setExternalIdMap merges the fetched records
MergeStep == call.pc = "await" /\ call'.pc # "await"

\* every entry of an identifier index is in the later index, with its record
IdEntriesKept(old, new) ==
    \A i \in 1..Len(old) :
        MapHas(new, old[i].key) /\ MapGet(new, old[i].key) = old[i].value

\* C3: for every task and both endpoints, in every step of the retrieval, each
\* identifier of the identifier index stays in the index and keeps the record
\* it was first stored with: the key set never shrinks and no record of a
\* known identifier is replaced.
C3_IdIndexFirstWriteWins ==
    [][\A name \in SObjectNames :
          /\ IdEntriesKept(sourceData[name].idRecordsMap, sourceData'[name].idRecordsMap)
          /\ IdEntriesKept(targetData[name].idRecordsMap, targetData'[name].idRecordsMap)]_vars

\* a filtered fetch has merged a record whose identifier was already indexed
\* with another record, and the index still holds the first record
C3_Witness ==
    /\ call.pc = "self"
    /\ call.queryMode = "backwards"
    /\ \E i \in 1..Len(call.records) :
          LET record == call.records[i]
          IN  /\ record.Id # ""
              /\ MapHas(sourceData[call.task].idRecordsMap, record.Id)
              /\ MapGet(sourceData[call.task].idRecordsMap, record.Id) # record

\* the identifier of the last record of a batch that has the external-id value
LastIdOf(records, value) ==
    records[CHOOSE i \in 1..Len(records) :
                /\ records[i].Name = value
                /\ \A j \in (i + 1)..Len(records) : records[j].Name # value].Id

\* C4: when a batch is merged, each non-empty external-id value of the batch
\* is mapped to the identifier of the last record of the batch that has the
\* value, whatever an earlier record of the batch or of an earlier pass had
\* stored for it; the values the batch does not have keep their identifier.
C4_ExtIdIndexLastWriteWins ==
    [][MergeStep =>
          LET old == CallData(sourceData, targetData).extIdRecordsMap
              new == CallData(sourceData', targetData').extIdRecordsMap
              records == call'.records
              values == {records[i].Name : i \in 1..Len(records)} \ {""}
          IN  /\ \A value \in values :
                    MapHas(new, value) /\ MapGet(new, value) = LastIdOf(records, value)
              /\ \A i \in 1..Len(old) :
                    old[i].key \notin values =>
                        MapHas(new, old[i].key) /\ MapGet(new, old[i].key) = old[i].value]_vars

\* a merged batch holds two records of one external-id value with different
\* identifiers, and the index maps the value to the later one
C4_Witness ==
    /\ call.pc = "self"
    /\ \E i, j \in 1..Len(call.records) :
          /\ i < j
          /\ call.records[i].Name # ""
          /\ call.records[i].Name = call.records[j].Name
          /\ call.records[i].Id # call.records[j].Id
          /\ \A k \in (j + 1)..Len(call.records) :
                call.records[k].Name # call.records[j].Name
          /\ MapGet(sourceData[call.task].extIdRecordsMap, call.records[j].Name)
                = call.records[j].Id

\* C9: the count a merge returns is the number of distinct non-empty
\* identifiers of the batch that the identifier index did not hold before the
\* merge, and it is the growth of the identifier index.
C9_NewRecordsCount ==
    [][MergeStep =>
          LET old == CallData(sourceData, targetData).idRecordsMap
              new == CallData(sourceData', targetData').idRecordsMap
              records == call'.records
              known == {old[i].key : i \in 1..Len(old)}
              ids == {records[i].Id : i \in 1..Len(records)} \ {""}
          IN  /\ call'.newRecordsCount = Cardinality(ids \ known)
              /\ call'.newRecordsCount = Len(new) - Len(old)]_vars

\* a merge of a batch with a known identifier and a new one has counted the
\* new one only
C9_Witness ==
    /\ call.pc = "self"
    /\ call.newRecordsCount > 0
    /\ call.newRecordsCount
          < Cardinality({call.records[i].Id : i \in 1..Len(call.records)} \ {""})

\* the identifier index and the external-id index of every task, per endpoint
Buckets == {sourceData[name] : name \in SObjectNames}
               \cup {targetData[name] : name \in SObjectNames}

\* the non-empty identifiers the external-id index of a bucket maps to
IdsOfExtIdIndex(data) ==
    {data.extIdRecordsMap[i].value : i \in 1..Len(data.extIdRecordsMap)} \ {""}

\* a bucket whose external-id index refers to known identifiers only, and
\* whose identifier index has no empty key
BucketConsistent(data) ==
    /\ \A id \in IdsOfExtIdIndex(data) : MapHas(data.idRecordsMap, id)
    /\ ~MapHas(data.idRecordsMap, "")

\* C38: in every state of the retrieval, for every task and both endpoints,
\* each non-empty identifier the external-id index maps a value to is a key of
\* the identifier index of the same task and endpoint, and the empty
\* identifier is no key of it; and when a batch is merged, the count returned
\* is at most the number of distinct non-empty identifiers of the batch, so a
\* record with an external-id value and no identifier adds no key and is not
\* counted.
C38_ExtIdIndexRefersToIdIndex ==
    /\ [](\A data \in Buckets : BucketConsistent(data))
    /\ [][MergeStep =>
            LET old == CallData(sourceData, targetData).idRecordsMap
                new == CallData(sourceData', targetData').idRecordsMap
                records == call'.records
                ids == {records[i].Id : i \in 1..Len(records)} \ {""}
            IN  /\ Elems(MapKeys(new)) \ Elems(MapKeys(old)) \subseteq ids
                /\ call'.newRecordsCount <= Cardinality(ids)]_vars

\* a merged batch of a source file holds a record with an external-id value
\* and no identifier beside a record with an identifier: the external-id index
\* maps the value to the empty identifier, and the count is that of the
\* records with an identifier
C38_Witness ==
    /\ call.pc = "self"
    /\ call.newRecordsCount > 0
    /\ call.newRecordsCount < Len(call.records)
    /\ \E i \in 1..Len(call.records) :
          /\ call.records[i].Name # ""
          /\ call.records[i].Id = ""
          /\ MapHas(sourceData[call.task].extIdRecordsMap, call.records[i].Name)
          /\ MapGet(sourceData[call.task].extIdRecordsMap, call.records[i].Name) = ""
    /\ BucketConsistent(sourceData[call.task])

\* the call of task.retrieveRecords the loop has made last
LastCall == callLog[Len(callLog)]

\* the tasks whose indices of an endpoint differ between two states
ChangedTasks(old, new) == {name \in SObjectNames : old[name] # new[name]}

\* C39: in every step of the retrieval, the indices that change are those of
\* the task whose retrieveRecords is running, and of one endpoint only: in the
\* forward, backward and forward-reversed passes (the first five) no target
\* index changes, in the target pass (the sixth) no source index changes, and
\* no index of another task changes.
C39_OnlyOwnIndicesOfTheEndpoint ==
    [][(sourceData' # sourceData \/ targetData' # targetData) =>
          /\ callLog # <<>>
          /\ ~LastCall.completed
          /\ LastCall.task = LoopTask(index)
          /\ LastCall.step = step
          /\ ChangedTasks(sourceData, sourceData') \subseteq {LastCall.task}
          /\ ChangedTasks(targetData, targetData') \subseteq {LastCall.task}
          /\ step < LastPass =>
                LastCall.queryMode # "target" /\ targetData' = targetData
          /\ step = LastPass =>
                LastCall.queryMode = "target" /\ sourceData' = sourceData]_vars

\* in the target pass the call of the first task has returned: the task has
\* target indices, the tasks after it have none yet, and every task has the
\* source indices of the passes before
C39_Witness ==
    /\ step = LastPass
    /\ call.pc = "idle"
    /\ index = 1
    /\ targetData[LoopTask(0)].idRecordsMap # <<>>
    /\ \A i \in 1..(Len(queryTasks) - 1) :
          /\ targetData[LoopTask(i)].idRecordsMap = <<>>
          /\ targetData[LoopTask(i)].extIdRecordsMap = <<>>
    /\ \A name \in RetrieveNames : sourceData[name].idRecordsMap # <<>>

\* the tasks whose operation is Delete
DeleteTasks == {name \in Elems(queryTasks) : scriptObject[name].operation = "Delete"}

\* the calls of task.retrieveRecords made for a task, as indices of the log
CallsOf(name) == {k \in 1..Len(callLog) : callLog[k].task = name}

\* C40: in every state of the retrieval, for a task whose operation is Delete,
\* no query of the task's entity is in flight, no call of the task is waiting
\* for records or in its self-reference block, every call made for it has
\* returned in the step that made it, and its source and target identifier
\* and external-id indices are empty; so they are empty when the six passes
\* are complete.
C40_DeleteRetrievesNothing ==
    \A name \in DeleteTasks :
        /\ \A msg \in inflight : msg.query.sObjectName # name
        /\ call.pc # "idle" => call.task # name
        /\ \A k \in CallsOf(name) : callLog[k].completed
        /\ sourceData[name] = EmptyData[name]
        /\ targetData[name] = EmptyData[name]

\* the six passes are complete for a job with a Delete task: the task was
\* called in each pass, and a task that is not Delete has source and target
\* records
C40_Witness ==
    /\ step = LastPass + 1
    /\ \E name \in DeleteTasks :
          /\ {callLog[k].step : k \in CallsOf(name)} = 1..LastPass
          /\ sourceData[name].idRecordsMap = <<>>
          /\ targetData[name].extIdRecordsMap = <<>>
    /\ \E other \in Elems(queryTasks) \ DeleteTasks :
          /\ sourceData[other].idRecordsMap # <<>>
          /\ targetData[other].idRecordsMap # <<>>

\* ------------------------------------------------------------------------
\* Properties of the passes
\* ------------------------------------------------------------------------
\* the six passes as (queryMode, reversed)
SixPasses ==
    << <<"forwards", FALSE>>, <<"backwards", FALSE>>, <<"backwards", FALSE>>,
       <<"forwards", TRUE>>, <<"forwards", TRUE>>, <<"target", FALSE>> >>

\* the k-th call of task.retrieveRecords of a run of six passes over the query
\* order
SixPassCall(k) ==
    LET n == Len(queryTasks)
        p == ((k - 1) \div n) + 1
    IN  [ step |-> p, queryMode |-> SixPasses[p][1], reversed |-> SixPasses[p][2],
          task |-> queryTasks[((k - 1) % n) + 1] ]

\* C5: the calls of task.retrieveRecords are, in order, the six passes forward,
\* backward, backward, forward reversed, forward reversed, target, each over
\* every task of the query order in query order; a call starts only when every
\* earlier call has returned, and when the job has returned all six passes
\* have run and nothing more.
C5_SixPassesInOrder ==
    /\ Len(callLog) <= 6 * Len(queryTasks)
    /\ \A k \in 1..Len(callLog) :
          /\ [ step |-> callLog[k].step, queryMode |-> callLog[k].queryMode,
               reversed |-> callLog[k].reversed, task |-> callLog[k].task ]
                = SixPassCall(k)
          /\ k < Len(callLog) => callLog[k].completed
    /\ (call.pc = "idle" /\ step > 6) =>
          /\ Len(callLog) = 6 * Len(queryTasks)
          /\ callLog[Len(callLog)].completed
    /\ call.pc = "idle" => \A k \in 1..Len(callLog) : callLog[k].completed

\* the job has returned from retrieveRecords after its eighteen calls
C5_Witness ==
    /\ call.pc = "idle"
    /\ step > 6
    /\ Len(callLog) = 18
    /\ \A k \in 1..18 : callLog[k].completed

\* the entity a lookup field of an entity refers to
ReferencedObjectType(name, fieldName) ==
    LET fields == fieldsInQuery(name)
    IN  fields[CHOOSE i \in 1..Len(fields) : fields[i].name = fieldName]
            .referencedObjectType

\* C6: a filtered query of a non-reversed source call filters on a lookup field
\* whose parent task is earlier in job.tasks when the call is of the forward
\* pass, and later in job.tasks when it is of a backward pass.
C6_FilteredQueryDirection ==
    ( /\ call.pc = "await"
      /\ call.phase = "main"
      /\ ~call.reversed )
    => \A i \in 1..Len(call.queries) :
          call.queries[i].kind = "in" =>
              LET parent == ReferencedObjectType(call.task, call.queries[i].field)
              IN  /\ call.queryMode = "forwards" =>
                        IndexOf(tasks, parent) < IndexOf(tasks, call.task)
                  /\ call.queryMode = "backwards" =>
                        IndexOf(tasks, parent) > IndexOf(tasks, call.task)

\* the in-values of the queries, in order
InValuesOf(queries) == Concat([i \in 1..Len(queries) |-> queries[i].inValues])

\* the queries of a target call are one broad query when the entity is
\* process-all-target, otherwise queries filtered on the external id by the
\* keys of the source external-id index
TargetFetch(name, queries) ==
    IF scriptObject[name].processAllTarget
    THEN /\ Len(queries) = 1
         /\ queries[1].kind = "all"
         /\ queries[1].sObjectName = name
    ELSE /\ \A i \in 1..Len(queries) :
               /\ queries[i].kind = "in"
               /\ queries[i].sObjectName = name
               /\ queries[i].field = "Name"
               /\ queries[i].inValues # <<>>
         /\ InValuesOf(queries) = MapKeys(sourceData[name].extIdRecordsMap)

\* C7 as stated: with an org as target, a target call of a task whose
\* operation is not Insert fetches (one broad query, or queries filtered by the
\* source external-id values), and a target call of an Insert task sends no
\* query.
C7_TargetFetchUnlessInsert ==
    (call.phase = "target" /\ targetOrg.media = "Org") =>
        IF scriptObject[call.task].operation = "Insert"
        THEN call.queries = <<>>
        ELSE TargetFetch(call.task, call.queries)

\* C7, amended: with an org as target, a target call of a task whose operation
\* is neither Insert nor Delete fetches (one broad query, or queries filtered
\* by the source external-id values), and a target call of an Insert or a
\* Delete task sends no query.
C7_TargetFetchUnlessInsertOrDelete ==
    (call.phase = "target" /\ targetOrg.media = "Org") =>
        IF scriptObject[call.task].operation \in {"Insert", "Delete"}
        THEN call.queries = <<>>
        ELSE TargetFetch(call.task, call.queries)

\* a target call of a task that is not process-all-target has sent its second
\* filtered query
C7_Witness ==
    /\ call.phase = "target"
    /\ targetOrg.media = "Org"
    /\ ~scriptObject[call.task].processAllTarget
    /\ scriptObject[call.task].operation \notin {"Insert", "Delete"}
    /\ call.queryIndex = 1
    /\ Len(call.queries) > 1

\* the rows of the source whose lookup field has a value the parent's index
\* holds are all in the entity's index
Resolved(name, fieldName, parent) ==
    \A i \in 1..Len(sourceOrg.rows[name]) :
        LET row == sourceOrg.rows[name][i]
        IN  (row.Id # "" /\ MapHas(sourceData[parent].idRecordsMap, row[fieldName]))
                => MapHas(sourceData[name].idRecordsMap, row.Id)

\* C8: Case looks up Contact and Contact looks up Account; when Case and
\* Contact are filtered, Case is before Contact and Contact before Account in
\* job.tasks, and the index of Account holds records, then at the end of the
\* second backward pass the index of Contact holds every Contact of the source
\* whose Account is indexed and the index of Case holds every Case of the
\* source whose Contact is indexed.  (The backward passes add nothing to the
\* index of Account, which has no lookup but to itself, so that its index
\* holds at the end of the passes what it held at their start.)
C8_DepthTwoChainResolved ==
    ( /\ step = 4 /\ index = 0 /\ call.pc = "idle"
      /\ sourceOrg.media = "Org"
      /\ \A name \in {"Case", "Contact"} :
            /\ ~scriptObject[name].processAllSource
            /\ scriptObject[name].operation # "Delete"
      /\ IndexOf(tasks, "Case") < IndexOf(tasks, "Contact")
      /\ IndexOf(tasks, "Contact") < IndexOf(tasks, "Account")
      /\ Len(sourceData["Account"].idRecordsMap) > 0 )
    => /\ Resolved("Contact", "AccountId", "Account")
       /\ Resolved("Case", "ContactId", "Contact")

\* the records the first k queries of a fetch return, in the order the queries
\* are in
ResultsInIssueOrder(queries, k, org) ==
    Concat([i \in 1..k |-> retrieveRecordsAsync(queries[i], org)])

\* C10: at most one query of a fetch is awaited at a time, the awaited one is
\* the one after those whose result has been received, and the records of the
\* fetch, which the merge goes through from first to last, are the results of
\* the queries in the order the queries were sent.
C10_QueriesOneAtATime ==
    /\ Cardinality(inflight) <= 1
    /\ call.pc # "await" => inflight = {}
    /\ call.pc = "await" =>
          /\ call.queryIndex < Len(call.queries)
          /\ inflight = {[ index |-> call.queryIndex,
                           query |-> call.queries[call.queryIndex + 1] ]}
          /\ call.records = ResultsInIssueOrder(call.queries, call.queryIndex,
                                IF call.phase = "target" THEN targetOrg ELSE sourceOrg)
    /\ (call.pc = "self" /\ call.queries # <<>>) =>
          call.records = ResultsInIssueOrder(call.queries, Len(call.queries), sourceOrg)

\* the second query of a filtered fetch is awaited after the first has answered
\* with records
C10_Witness ==
    /\ call.pc = "await"
    /\ Len(call.queries) > 1
    /\ call.queries[1].kind = "in"
    /\ call.queryIndex = 1
    /\ call.records # <<>>
    /\ inflight = {[index |-> 1, query |-> call.queries[2]]}

\* ------------------------------------------------------------------------
\* Empty candidate sets
\* ------------------------------------------------------------------------
\* the call of the frame takes the filtered branch of the main source block
FilteredCall(frame) ==
    /\ frame.phase = "main"
    /\ scriptObject[frame.task].operation # "Delete"
    /\ ~scriptObject[frame.task].processAllSource
    /\ ~(sourceOrg.media = "File" /\ frame.queryMode = "forwards")

\* the fields of the call's fieldsToQueryMap whose candidate values are not
\* empty
FieldsWithValues(frame) ==
    LET map == fieldsToQueryMap(frame.task, frame.queryMode, frame.reversed)
    IN  {map[i].field : i \in {j \in 1..Len(map) : map[j].inValues # <<>>}}

\* the self-reference block of the call has no value to ask for
NoSelfReferenceValues(frame) ==
    \/ ~(sourceOrg.media = "Org" /\ frame.queryMode = "forwards")
    \/ \A i \in 1..Len(sourceData[frame.task].idRecordsMap) :
          \A j \in 1..Len(fieldsInQuery(frame.task)) :
              LET field == fieldsInQuery(frame.task)[j]
              IN  isSimpleSelfReference(field) =>
                      sourceData[frame.task].idRecordsMap[i].value[field.name] = ""

\* C13: in every step that leaves a call in the filtered branch of the source
\* block, the 'field in' queries of the call are on exactly the fields whose
\* candidate values are not empty and none has an empty value list; when the
\* task is not limited and no field has candidate values the call has no
\* query, nothing is awaited and the indices of both endpoints are as they
\* were; and when the self-reference block has no value to ask for either, the
\* call then returns with the indices unchanged.
C13_EmptyCandidatesNoQuery ==
    [][ /\ FilteredCall(call') =>
              /\ \A i \in 1..Len(call'.queries) :
                    call'.queries[i].kind = "in" =>
                        /\ call'.queries[i].inValues # <<>>
                        /\ call'.queries[i].field \in FieldsWithValues(call')
              /\ \A field \in FieldsWithValues(call') :
                    \E i \in 1..Len(call'.queries) :
                        call'.queries[i].kind = "in" /\ call'.queries[i].field = field
              /\ ( ~scriptObject[call'.task].isLimitedQuery
                   /\ FieldsWithValues(call') = {} ) =>
                     /\ call'.queries = <<>>
                     /\ call'.pc \in {"self", "idle"}
                     /\ inflight' = {}
                     /\ UNCHANGED <<sourceData, targetData>>
        /\ ( /\ call.pc = "self"
             /\ FilteredCall(call)
             /\ ~scriptObject[call.task].isLimitedQuery
             /\ FieldsWithValues(call) = {}
             /\ NoSelfReferenceValues(call) ) =>
               /\ call'.pc = "idle"
               /\ callLog'[Len(callLog')].completed
               /\ inflight' = {}
               /\ UNCHANGED <<sourceData, targetData>> ]_vars

\* a backward call of a filtered task that is not limited has returned without
\* a query: its parent's index, the only candidate set, was empty
C13_Witness ==
    /\ call.pc = "idle"
    /\ call.queryMode = "backwards"
    /\ FilteredCall(call)
    /\ ~scriptObject[call.task].isLimitedQuery
    /\ fieldsToQueryMap(call.task, call.queryMode, call.reversed) # <<>>
    /\ FieldsWithValues(call) = {}
    /\ call.queries = <<>>
    /\ callLog[Len(callLog)].completed
    /\ callLog[Len(callLog)].task = call.task

\* the source of the task is unfiltered: a flat file, or all records of the org
UnfilteredSource(name) ==
    sourceOrg.media = "File" \/ scriptObject[name].processAllSource

\* the queries among msgs that read an entity as a whole
BroadQueries(msgs) == {msg \in msgs : msg.query.kind \in {"all", "csv"}}

\* C28: a call of task.retrieveRecords for a task with an unfiltered source
\* sends the broad source query, once, in the forward loop, and sends no
\* broad query in the two backward and the two forward-reversed loops
C28_BroadReadOnce ==
    [][ /\ setupPc = "done"
        /\ call.pc = "idle"
        /\ step < LastPass
        /\ UnfilteredSource(LoopTask(index))
        => Cardinality(BroadQueries(inflight')) = IF step = 1 THEN 1 ELSE 0 ]_vars

\* the record of the source with the identifier id, if the source has one, is
\* in the source identifier index of the entity
IndexedIfInSource(name, id) ==
    (\E i \in 1..Len(sourceOrg.rows[name]) : sourceOrg.rows[name][i].Id = id)
        => MapHas(sourceData[name].idRecordsMap, id)

\* the simple lookup fields of an entity whose parent is a task of the job,
\* is filtered and is not on the denylist
ClosedLookups(name) ==
    {k \in 1..Len(fieldsInQuery(name)) :
        LET field == fieldsInQuery(name)[k]
        IN  /\ isSimpleReference(field)
            /\ field.referencedObjectType \in Elems(tasks)
            /\ ~scriptObject[field.referencedObjectType].processAllSource
            /\ field.referencedObjectType \notin NOT_TO_USE_IN_FILTERED_QUERYIN_CLAUSE}

\* C29: when the source passes of a job over an org are through, the parent
\* of every indexed record, by every simple lookup with a value to a filtered
\* parent task off the denylist, is indexed if the source has it
C29_ReferentialClosure ==
    (step >= LastPass /\ sourceOrg.media = "Org")
        => \A name \in Elems(tasks) :
              \A i \in 1..Len(sourceData[name].idRecordsMap) :
                  \A k \in ClosedLookups(name) :
                      LET r == sourceData[name].idRecordsMap[i].value
                          field == fieldsInQuery(name)[k]
                      IN  r[field.name] # ""
                              => IndexedIfInSource(field.referencedObjectType,
                                                   r[field.name])

\* C29: the closure holds call by call, not for the run: when the main fetch
\* of a forward-reversed call of a filtered task off the denylist is through
\* (the task is then not deleted), with an org as source, the record of the
\* task that a record in the index of any other task names by a simple lookup
\* is indexed if the source has it
C29_ClosureAfterReversedCall ==
    ( /\ call.pc = "self"
      /\ call.reversed
      /\ sourceOrg.media = "Org"
      /\ ~scriptObject[call.task].processAllSource
      /\ call.task \notin NOT_TO_USE_IN_FILTERED_QUERYIN_CLAUSE )
    => \A name \in Elems(tasks) \ {call.task} :
          \A i \in 1..Len(sourceData[name].idRecordsMap) :
              \A k \in 1..Len(fieldsInQuery(name)) :
                  LET r == sourceData[name].idRecordsMap[i].value
                      field == fieldsInQuery(name)[k]
                  IN  (field.referencedObjectType = call.task /\ r[field.name] # "")
                          => IndexedIfInSource(call.task, r[field.name])

\* the second forward-reversed call of Account has fetched a1, the account of
\* the contact c1 that the first forward-reversed pass added after the call
\* of Account
C29_Witness ==
    /\ call.pc = "self"
    /\ call.reversed
    /\ call.task = "Account"
    /\ step = 5
    /\ sourceOrg.media = "Org"
    /\ ~scriptObject["Account"].processAllSource
    /\ call.queries # <<>>
    /\ MapHas(sourceData["Contact"].idRecordsMap, "c1")
    /\ MapKeys(sourceData["Account"].idRecordsMap) = <<"a1">>

\* ------------------------------------------------------------------------
\* Strings of the CSV files
\* ------------------------------------------------------------------------
\* A string is the sequence of its tokens; " " is a blank and "." a dot, so
\* that trimming, splitting and concatenation are computed on the tokens.
\* The empty string is <<>>.

\* how many changes the files and settings of a CSV job carry against the
\* plain job (see CsvChanges)
MaxCsvChanges == 2

\* String.prototype.trimStart
RECURSIVE trimStart(_)
trimStart(s) ==
    IF Len(s) > 0 /\ s[1] = " " THEN trimStart(Tail(s)) ELSE s

\* String.prototype.trimEnd
RECURSIVE trimEnd(_)
trimEnd(s) ==
    IF Len(s) > 0 /\ s[Len(s)] = " " THEN trimEnd(SubSeq(s, 1, Len(s) - 1)) ELSE s

\* String.prototype.trim
trim(s) == trimEnd(trimStart(s))

\* String.prototype.split('.'): the dot-separated parts, in order
RECURSIVE split(_)
split(s) ==
    IF \E i \in 1..Len(s) : s[i] = "."
    THEN LET i == CHOOSE k \in 1..Len(s) :
                      s[k] = "." /\ \A j \in 1..(k - 1) : s[j] # "."
         IN  <<SubSeq(s, 1, i - 1)>> \o split(SubSeq(s, i + 1, Len(s)))
    ELSE <<s>>

\* the value of a property an object does not have
undefined == <<"(undefined)">>

\* String(value)
String(value) == IF value = undefined THEN <<"undefined">> ELSE value

\* the entity names of a CSV job
CsvNames == {"Case", "CaseComment"}

\* the spelling of an entity name
sObjectName(name) ==
    IF name = "CaseComment" THEN <<"Case", "Comment">> ELSE <<name>>

\* the entity a spelling names, "" when it names none
getObjectByName(spelling) ==
    IF \E name \in CsvNames : sObjectName(name) = spelling
    THEN CHOOSE name \in CsvNames : sObjectName(name) = spelling
    ELSE ""

\* MigrationJobTask.data.csvFilename: the file of the entity under basePath
csvFilename(name) == <<"basePath", name>>

\* MigrationJobTask.data.sourceCsvFilename: its copy in the source directory
sourceCsvFilename(name) == <<"source", name>>

\* ------------------------------------------------------------------------
\* The descriptors of a CSV job
\* ------------------------------------------------------------------------
\* the lookup field CaseComment.ParentId and the names derived from it
ParentIdField ==
    [ name |-> <<"ParentId">>, isReference |-> TRUE, sObject |-> "CaseComment",
      parentLookupObject |-> "Case",
      nameId |-> <<"ParentId">>,
      fullName__r |-> <<"Parent", ".", "Subject">>,
      fullOriginalName__r |-> <<"Parent", ".", "Subject">>,
      fullIdName__r |-> <<"Parent", ".", "Id">> ]

\* a field that is no lookup
SimpleField(name, field) ==
    [ name |-> field, isReference |-> FALSE, sObject |-> name,
      parentLookupObject |-> "",
      nameId |-> field, fullName__r |-> <<>>, fullOriginalName__r |-> <<>>,
      fullIdName__r |-> <<>> ]

\* the ScriptObject of CSV entity name under the changes D
CsvScriptObject(name, D) ==
    [ name |-> name,
      externalId |-> IF name = "Case" THEN <<"Subject">> ELSE <<"CommentBody">>,
      originalExternalId |-> IF name = "Case" THEN <<"Subject">> ELSE <<"CommentBody">>,
      useCSVValuesMapping |-> <<"noCSVValuesMapping", name>> \notin D,
      hasValueMapping |-> <<"noValueMapping", name>> \notin D,
      useFieldMapping |-> TRUE,
      fieldsToUpdate |-> IF name = "Case"
                         THEN << <<"Subject">>, <<"Type">> >>
                         ELSE << <<"CommentBody">>, <<"ParentId">> >>,
      fieldsInQuery |-> IF name = "Case"
                        THEN << SimpleField(name, <<"Id">>),
                                SimpleField(name, <<"Subject">>),
                                SimpleField(name, <<"Type">>) >>
                        ELSE << SimpleField(name, <<"Id">>),
                                SimpleField(name, <<"CommentBody">>),
                                ParentIdField >>,
      child__rSFields |-> IF name = "Case" THEN <<ParentIdField>> ELSE <<>> ]

\* ------------------------------------------------------------------------
\* The files of a CSV job
\* ------------------------------------------------------------------------
\* the columns of the plain file of an entity
CsvColumns(name) ==
    IF name = "Case"
    THEN << <<"Id">>, <<"Subject">>, <<"Type">>, <<"Comment", "Type">> >>
    ELSE << <<"Id">>, <<"CommentBody">>, <<"ParentId">>,
            <<"Parent", ".", "Subject">> >>

\* the rows of the plain file of an entity, one value per column
CsvValues(name, D) ==
    IF name = "Case"
    THEN << << <<"c1">>, <<"S1">>, <<"Cust">>, <<"Cust">> >>,
            << <<"c2">>, <<"S2">>, <<"Cust", " ">>, <<"x">> >>,
            << <<"c3">>, <<"S3">>, <<"cust">>, <<"x">> >> >>
    ELSE << << <<"m1">>, <<"B1">>, <<"c1">>, <<"S1">> >>,
            << <<"m2">>, <<"B2">>,
               IF <<"blank", name>> \in D THEN <<>>
               ELSE IF <<"orphan", name>> \in D THEN <<"c9">> ELSE <<"c2">>,
               IF <<"blank", name>> \in D THEN <<>>
               ELSE IF <<"orphan", name>> \in D THEN <<"S9">> ELSE <<"S2">> >> >>

\* the header name a column of the plain file carries under the changes D
CsvColumnName(name, column, D) ==
    IF <<"padStart", name, column>> \in D THEN <<" ">> \o column
    ELSE IF <<"padEnd", name, column>> \in D THEN column \o <<" ">>
    ELSE IF <<"dotFinal", name, column>> \in D THEN <<"X", ".">> \o column
    ELSE IF <<"dotFirst", name, column>> \in D THEN column \o <<".", "X">>
    ELSE column

\* one parsed row: the columns in header order; a twin of a column is a second
\* column whose name is that of the column with a blank on either side
CsvRow(name, values, D) ==
    LET columns == CsvColumns(name)
        cell(i) ==
            IF <<"drop", name, columns[i]>> \in D THEN <<>>
            ELSE (IF <<"twin", name, columns[i]>> \in D
                  THEN <<[key |-> <<" ">> \o columns[i] \o <<" ">>, value |-> <<"twin">>]>>
                  ELSE <<>>)
                 \o <<[key |-> CsvColumnName(name, columns[i], D), value |-> values[i]]>>
    IN  cell(1) \o cell(2) \o cell(3) \o cell(4)

\* the input files under the changes D: path -> parsed rows; a file that
\* does not exist has no entry
CsvDisk(D) ==
    LET file(name) ==
            IF <<"missing", name>> \in D THEN <<>>
            ELSE <<[ key |-> csvFilename(name),
                     value |-> IF <<"empty", name>> \in D THEN <<>>
                               ELSE [i \in 1..Len(CsvValues(name, D)) |->
                                        CsvRow(name, CsvValues(name, D)[i], D)] ]>>
    IN  file("Case") \o file("CaseComment")

\* the rules a value mapping file can carry: ObjectName, FieldName, RawValue,
\* Value as written in the file
CsvRules ==
    { << <<"Case">>, <<"Type">>, <<"Cust">>, <<"Customer">> >>,
      << <<" ", "Case">>, <<"Type", " ">>, <<" ", "Cust">>, <<"Customer", " ">> >>,
      << <<"Case">>, <<"Type">>, <<"cust">>, <<"Cust">> >>,
      << <<"Case", "Comment">>, <<"Type">>, <<"Cust">>, <<"Other">> >>,
      << <<"Case", "Comment">>, <<"CommentBody">>, <<"B1">>, <<"B1">> >> }

\* the value mapping file under the changes D
CsvValueMappingFile(D) ==
    LET rules == {r \in CsvRules : <<"rule", r>> \in D}
        RECURSIVE rows(_)
        rows(R) ==
            IF R = {} THEN <<>>
            ELSE LET r == CHOOSE x \in R : TRUE
                 IN  << << [key |-> <<"ObjectName">>, value |-> r[1]],
                           [key |-> <<"FieldName">>, value |-> r[2]],
                           [key |-> <<"RawValue">>, value |-> r[3]],
                           [key |-> <<"Value">>, value |-> r[4]] >> >>
                     \o rows(R \ {r})
    IN  rows(rules)

\* the changes a CSV job can carry against the plain one
CsvChanges ==
    {<<k, name>> : k \in {"missing", "empty", "noCSVValuesMapping", "noValueMapping"},
                   name \in CsvNames}
    \cup {<<"orphan", "CaseComment">>, <<"blank", "CaseComment">>}
    \cup {<<"drop", name, CsvColumns(name)[i]>> : name \in CsvNames, i \in 1..3}
    \cup {<<"drop", "CaseComment", <<"Parent", ".", "Subject">> >>}
    \cup {<<k, "Case", <<"Type">> >> : k \in {"padStart", "padEnd", "twin",
                                              "dotFinal", "dotFirst"}}
    \cup {<<k, "CaseComment", <<"ParentId">> >> : k \in {"padEnd", "dotFinal", "dotFirst"}}
    \cup {<<"rule", r>> : r \in CsvRules}

\* ------------------------------------------------------------------------
\* Rows
\* ------------------------------------------------------------------------
\* Object.keys(row)
ObjectKeys(row) == MapKeys(row)

\* row.hasOwnProperty(column)
hasOwnProperty(row, column) == MapHas(row, column)

\* row[column]
Prop(row, column) == IF MapHas(row, column) THEN MapGet(row, column) ELSE undefined

\* delete row[column]
DeleteProp(row, column) == SelectSeq(row, LAMBDA e : e.key # column)

\* a value an if-condition takes as true
Truthy(value) == value # undefined /\ value # <<>>

\* an ICSVIssues record (the date is left out)
CsvIssue(childSObject, childField, childValue, parentSObject, parentField, parentValue, error) ==
    [ childSObject |-> childSObject, childField |-> childField,
      childValue |-> childValue, parentSObject |-> parentSObject,
      parentField |-> parentField, parentValue |-> parentValue, error |-> error ]

\* the null of an ICSVIssues property
null == <<"(null)">>

\* ------------------------------------------------------------------------
\* Reading and writing files
\* ------------------------------------------------------------------------
\* Common.readCsvFileAsync(path, linesToRead): the parsed rows of the file, the
\* first linesToRead of them when linesToRead > 0; no rows for a file that
\* does not exist
readCsvFileAsync(files, path, linesToRead) ==
    IF ~MapHas(files, path) THEN <<>>
    ELSE LET rows == MapGet(files, path)
         IN  IF linesToRead > 0 /\ Len(rows) > linesToRead
             THEN SubSeq(rows, 1, linesToRead)
             ELSE rows

\* a disk access, as csvLog records it
DiskAccess(op, path, rows) == [op |-> op, path |-> path, rows |-> rows]

\* ------------------------------------------------------------------------
\* MigrationJob._loadValueMappingFileAsync
\* ------------------------------------------------------------------------
\* the key of the value mapping of a column: objectName + fieldName
ValueMappingKey(objectName, fieldName) == objectName \o fieldName

\* csvRows.forEach(row => ...): the table after the rows from position i on
RECURSIVE loadValueMappingRows(_, _, _, _)
loadValueMappingRows(csvRows, i, mapping, objectsMap) ==
    IF i > Len(csvRows) THEN mapping
    ELSE LET row == csvRows[i]
             objectName == trim(String(Prop(row, <<"ObjectName">>)))
             fieldName == trim(String(Prop(row, <<"FieldName">>)))
             name == getObjectByName(objectName)
             key == ValueMappingKey(objectName, fieldName)
             rawValue == trim(String(Prop(row, <<"RawValue">>)))
             value == trim(String(Prop(row, <<"Value">>)))
             valuesMap == IF MapHas(mapping, key) THEN MapGet(mapping, key) ELSE <<>>
         IN  IF /\ Truthy(Prop(row, <<"ObjectName">>))
                /\ Truthy(Prop(row, <<"FieldName">>))
                /\ name # ""
                /\ objectsMap[name].hasValueMapping
             THEN loadValueMappingRows(csvRows, i + 1,
                      MapSet(mapping, key, MapSet(valuesMap, rawValue, value)),
                      objectsMap)
             ELSE loadValueMappingRows(csvRows, i + 1, mapping, objectsMap)

\* ------------------------------------------------------------------------
\* MigrationJobTask.validateCSV
\* ------------------------------------------------------------------------
\* ColumnMatches with only the last part of the name compared
ColumnMatches_FinalSegment(columnName, fieldName) ==
    LET trimmed == trim(columnName)
        nameParts == split(trimmed)
    IN  \/ trimmed = fieldName
        \/ nameParts[Len(nameParts)] = fieldName

\* columnName => columnName == fieldName || nameParts.some(...)
ColumnMatches(columnName, fieldName) ==
    LET trimmed == trim(columnName)
        nameParts == split(trimmed)
    IN  \/ trimmed = fieldName
        \/ \E k \in 1..Len(nameParts) : nameParts[k] = fieldName

\* validateCSV without the return after the issue of an empty file
validateCSV_NoShortCircuit(name, files, objectsMap) ==
    LET csvColumnsRow == readCsvFileAsync(files, sourceCsvFilename(name), 1)
        fields == objectsMap[name].fieldsToUpdate
        columnExists(fieldName) ==
            /\ Len(csvColumnsRow) > 0
            /\ \E k \in 1..Len(csvColumnsRow[1]) :
                  ColumnMatches(ObjectKeys(csvColumnsRow[1])[k], fieldName)
        issue(fieldName) ==
            IF columnExists(fieldName) THEN <<>>
            ELSE <<CsvIssue(name, fieldName, null, null, null, null,
                            "columnsMissingInCSV")>>
        RECURSIVE issues(_)
        issues(i) == IF i > Len(fields) THEN <<>>
                     ELSE issue(fields[i]) \o issues(i + 1)
    IN  (IF Len(csvColumnsRow) = 0
         THEN <<CsvIssue(name, null, null, null, null, null, "csvFileIsEmpty")>>
         ELSE <<>>) \o issues(1)

\* the issues validateCSV of task name returns over the files
validateCSV(name, files, objectsMap) ==
    LET csvColumnsRow == readCsvFileAsync(files, sourceCsvFilename(name), 1)
        fields == objectsMap[name].fieldsToUpdate
        columnExists(fieldName) ==
            \E k \in 1..Len(csvColumnsRow[1]) :
                ColumnMatches(ObjectKeys(csvColumnsRow[1])[k], fieldName)
        issue(fieldName) ==
            IF columnExists(fieldName) THEN <<>>
            ELSE <<CsvIssue(name, fieldName, null, null, null, null,
                            "columnsMissingInCSV")>>
        RECURSIVE issues(_)
        issues(i) == IF i > Len(fields) THEN <<>>
                     ELSE issue(fields[i]) \o issues(i + 1)
    IN  IF Len(csvColumnsRow) = 0
        THEN <<CsvIssue(name, null, null, null, null, null, "csvFileIsEmpty")>>
        ELSE issues(1)

\* ------------------------------------------------------------------------
\* The file cache
\* ------------------------------------------------------------------------
\* a decimal digit as a token
Digit(i) == <<"0", "1", "2", "3", "4", "5", "6", "7", "8", "9">>[i + 1]

\* the key of row i of a file whose row has no Id value: a generated one
MakeId(path, i) == <<"#", path[2], Digit(i)>>

\* the Map a parsed file is cached as: row identifier -> row, a later row of
\* the same identifier replaces the earlier one
RECURSIVE FileMapOf(_, _, _, _)
FileMapOf(rows, i, path, fileMap) ==
    IF i > Len(rows) THEN fileMap
    ELSE LET id == Prop(rows[i], <<"Id">>)
         IN  FileMapOf(rows, i + 1, path,
                 MapSet(fileMap, IF Truthy(id) THEN id ELSE MakeId(path, i), rows[i]))

\* Common.readCsvFileOnceAsync(csvDataCacheMap, path): the cached Map of the
\* file; the file is read and parsed when the cache does not hold it
readCsvFileOnceAsync(csvDataCacheMap, files, path) ==
    IF MapHas(csvDataCacheMap, path) THEN MapGet(csvDataCacheMap, path)
    ELSE IF ~MapHas(files, path) THEN <<>>
    ELSE FileMapOf(readCsvFileAsync(files, path, 0), 1, path, <<>>)

\* csvDataCacheMap after readCsvFileOnceAsync of path
CacheAfterRead(csvDataCacheMap, files, path) ==
    IF MapHas(csvDataCacheMap, path) \/ ~MapHas(files, path) THEN csvDataCacheMap
    ELSE MapSet(csvDataCacheMap, path, readCsvFileOnceAsync(csvDataCacheMap, files, path))

\* csvLog after readCsvFileOnceAsync of path
LogAfterRead(log, csvDataCacheMap, files, path) ==
    IF MapHas(csvDataCacheMap, path) \/ ~MapHas(files, path) THEN log
    ELSE Append(log, DiskAccess("read", path, <<>>))

\* cachedCSVContent.nextId: the identifier the counter stands at
nextId(idCounter) == <<"ID", Digit(idCounter)>>

\* ------------------------------------------------------------------------
\* MigrationJobTask.repairCSV: the header and the values
\* ------------------------------------------------------------------------
\* the first row of a cached file: currentFileMap.values().next().value
FirstRow(fileMap) == fileMap[1].value

\* the columns ___trimColumnNames renames
columnsToUpdate(firstRow) ==
    SelectSeq(ObjectKeys(firstRow), LAMBDA field : field # trim(field))

\* csvRow[newColumn] = csvRow[column]; delete csvRow[column], for the columns
\* from position i on
RECURSIVE RenameColumns(_, _, _)
RenameColumns(csvRow, columns, i) ==
    IF i > Len(columns) THEN csvRow
    ELSE RenameColumns(
             DeleteProp(MapSet(csvRow, trim(columns[i]), Prop(csvRow, columns[i])),
                        columns[i]),
             columns, i + 1)

\* ___trimColumnNames(firstRow): the file afterwards
trimColumnNames(fileMap) ==
    LET columns == columnsToUpdate(FirstRow(fileMap))
    IN  [i \in 1..Len(fileMap) |->
            [key |-> fileMap[i].key, value |-> RenameColumns(fileMap[i].value, columns, 1)]]

\* fields.forEach(field => ...) of ___updateWithCSVValueMapping on one row, for
\* the fields from position i on
RECURSIVE MapRowValues(_, _, _, _, _)
MapRowValues(csvRow, fields, i, name, mapping) ==
    IF i > Len(fields) THEN csvRow
    ELSE LET key == ValueMappingKey(sObjectName(name), fields[i])
             valuesMap == IF MapHas(mapping, key) THEN MapGet(mapping, key) ELSE <<>>
             rawValue == trim(String(Prop(csvRow, fields[i])))
         IN  MapRowValues(
                 IF Len(valuesMap) > 0 /\ MapHas(valuesMap, rawValue)
                 THEN MapSet(csvRow, fields[i], MapGet(valuesMap, rawValue))
                 ELSE csvRow,
                 fields, i + 1, name, mapping)

\* ___updateWithCSVValueMapping(firstRow): the file afterwards
updateWithCSVValueMapping(fileMap, name, mapping) ==
    LET fields == ObjectKeys(FirstRow(fileMap))
    IN  [i \in 1..Len(fileMap) |->
            [key |-> fileMap[i].key,
             value |-> MapRowValues(fileMap[i].value, fields, 1, name, mapping)]]

\* addMissingIdColumn with the position of the row as its Id
addMissingIdColumn_ByPosition(fileMap) ==
    [i \in 1..Len(fileMap) |->
        [key |-> fileMap[i].key, value |-> MapSet(fileMap[i].value, <<"Id">>, <<"ID", Digit(i)>>)]]

\* ___addMissingIdColumn(): the file afterwards
addMissingIdColumn(fileMap) ==
    [i \in 1..Len(fileMap) |->
        [key |-> fileMap[i].key, value |-> MapSet(fileMap[i].value, <<"Id">>, fileMap[i].key)]]

\* ------------------------------------------------------------------------
\* MigrationJobTask.repairCSV: the identifier and the lookup columns
\* ------------------------------------------------------------------------
\* task.getRecordValue(record, propName, sObjectName, sFieldName) of a task
\* that is not the RecordType task: record[sFieldName || propName]
getCsvRecordValue(record, propName, sFieldName) ==
    Prop(record, IF Truthy(sFieldName) THEN sFieldName ELSE propName)

\* the Map of the rows that carry a value in column: value -> row, from
\* position i on
RECURSIVE RowsByValue(_, _, _, _)
RowsByValue(fileMap, column, i, map) ==
    IF i > Len(fileMap) THEN map
    ELSE LET key == getCsvRecordValue(fileMap[i].value, column, <<>>)
         IN  RowsByValue(fileMap, column, i + 1,
                 IF Truthy(key) THEN MapSet(map, key, fileMap[i].value) ELSE map)

\* what a loop over the rows of a file has made so far
RowsResult(fileMap, idCounter, issues, isFileChanged) ==
    [ fileMap |-> fileMap, idCounter |-> idCounter, issues |-> issues,
      isFileChanged |-> isFileChanged ]

\* LookupRow with no issue for a lookup-id value that finds no parent row
LookupRow_SilentId(csvRow, name, sField, parentExternalId, parentFileMap, parentCSVRowsMap, idCounter) ==
    LET columnName__r == sField.fullName__r
        columnNameId == sField.nameId
        result(row, counter, issues, changed) ==
            [row |-> row, idCounter |-> counter, issues |-> issues,
             isFileChanged |-> changed]
    IN  IF ~hasOwnProperty(csvRow, columnNameId)
        THEN IF ~hasOwnProperty(csvRow, columnName__r)
             THEN result(MapSet(MapSet(csvRow, columnNameId, nextId(idCounter)),
                                columnName__r, nextId(idCounter + 1)),
                         idCounter + 2, <<>>, TRUE)
             ELSE LET desiredExternalIdValue ==
                          getCsvRecordValue(csvRow, parentExternalId, columnName__r)
                  IN  IF ~Truthy(desiredExternalIdValue)
                      THEN result(csvRow, idCounter, <<>>, FALSE)
                      ELSE IF ~MapHas(parentCSVRowsMap, desiredExternalIdValue)
                      THEN result(MapSet(csvRow, columnNameId, nextId(idCounter)),
                                  idCounter + 1,
                                  <<CsvIssue(name, columnName__r, desiredExternalIdValue,
                                             sField.parentLookupObject, parentExternalId,
                                             null,
                                             "missingParentRecordForGivenLookupValue")>>,
                                  TRUE)
                      ELSE result(MapSet(csvRow, columnNameId,
                                         Prop(MapGet(parentCSVRowsMap,
                                                     desiredExternalIdValue), <<"Id">>)),
                                  idCounter, <<>>, TRUE)
        ELSE IF ~hasOwnProperty(csvRow, columnName__r)
        THEN LET idValue == Prop(csvRow, columnNameId)
             IN  IF ~Truthy(idValue)
                 THEN result(csvRow, idCounter, <<>>, FALSE)
                 ELSE IF ~MapHas(parentFileMap, idValue)
                 THEN result(MapSet(csvRow, columnName__r, nextId(idCounter)),
                             idCounter + 1,
                             <<>>,
                             TRUE)
                 ELSE result(MapSet(csvRow, columnName__r,
                                    Prop(MapGet(parentFileMap, idValue), parentExternalId)),
                             idCounter, <<>>, TRUE)
        ELSE result(csvRow, idCounter, <<>>, FALSE)

\* the body of [...currentFileMap.keys()].forEach(id => ...) in
\* ___addMissingLookupColumnsAsync, on one row
LookupRow(csvRow, name, sField, parentExternalId, parentFileMap, parentCSVRowsMap, idCounter) ==
    LET columnName__r == sField.fullName__r
        columnNameId == sField.nameId
        result(row, counter, issues, changed) ==
            [row |-> row, idCounter |-> counter, issues |-> issues,
             isFileChanged |-> changed]
    IN  IF ~hasOwnProperty(csvRow, columnNameId)
        THEN IF ~hasOwnProperty(csvRow, columnName__r)
             THEN result(MapSet(MapSet(csvRow, columnNameId, nextId(idCounter)),
                                columnName__r, nextId(idCounter + 1)),
                         idCounter + 2, <<>>, TRUE)
             ELSE LET desiredExternalIdValue ==
                          getCsvRecordValue(csvRow, parentExternalId, columnName__r)
                  IN  IF ~Truthy(desiredExternalIdValue)
                      THEN result(csvRow, idCounter, <<>>, FALSE)
                      ELSE IF ~MapHas(parentCSVRowsMap, desiredExternalIdValue)
                      THEN result(MapSet(csvRow, columnNameId, nextId(idCounter)),
                                  idCounter + 1,
                                  <<CsvIssue(name, columnName__r, desiredExternalIdValue,
                                             sField.parentLookupObject, parentExternalId,
                                             null,
                                             "missingParentRecordForGivenLookupValue")>>,
                                  TRUE)
                      ELSE result(MapSet(csvRow, columnNameId,
                                         Prop(MapGet(parentCSVRowsMap,
                                                     desiredExternalIdValue), <<"Id">>)),
                                  idCounter, <<>>, TRUE)
        ELSE IF ~hasOwnProperty(csvRow, columnName__r)
        THEN LET idValue == Prop(csvRow, columnNameId)
             IN  IF ~Truthy(idValue)
                 THEN result(csvRow, idCounter, <<>>, FALSE)
                 ELSE IF ~MapHas(parentFileMap, idValue)
                 THEN result(MapSet(csvRow, columnName__r, nextId(idCounter)),
                             idCounter + 1,
                             <<CsvIssue(name, columnNameId, idValue,
                                        sField.parentLookupObject, <<"Id">>, null,
                                        "missingParentRecordForGivenLookupValue")>>,
                             TRUE)
                 ELSE result(MapSet(csvRow, columnName__r,
                                    Prop(MapGet(parentFileMap, idValue), parentExternalId)),
                             idCounter, <<>>, TRUE)
        ELSE result(csvRow, idCounter, <<>>, FALSE)

\* [...currentFileMap.keys()].forEach(id => ...) from position i on
RECURSIVE LookupRows(_, _, _, _, _, _, _, _)
LookupRows(acc, i, name, sField, parentExternalId, parentFileMap, parentCSVRowsMap, original) ==
    IF i > Len(original) THEN acc
    ELSE LET r == LookupRow(original[i].value, name, sField, parentExternalId,
                            parentFileMap, parentCSVRowsMap, acc.idCounter)
         IN  LookupRows(
                 RowsResult(Append(acc.fileMap, [key |-> original[i].key, value |-> r.row]),
                            r.idCounter, acc.issues \o r.issues,
                            acc.isFileChanged \/ r.isFileChanged),
                 i + 1, name, sField, parentExternalId, parentFileMap, parentCSVRowsMap,
                 original)

\* ___addMissingLookupColumnsAsync(sField) past the read of the parent file
addMissingLookupColumns(currentFileMap, name, sField, parentExternalId, parentFileMap, idCounter) ==
    LookupRows(RowsResult(<<>>, idCounter, <<>>, FALSE), 1, name, sField,
               parentExternalId, parentFileMap,
               RowsByValue(parentFileMap, parentExternalId, 1, <<>>), currentFileMap)

\* the body of [...childFileMap.values()].forEach(csvRow => ...) in
\* ___updateChildOriginalIdColumnsAsync, on one row
ChildRow(csvRow, childIdSField, parentOriginalExternalIdColumnName, parentCSVExtIdMap) ==
    LET extIdValue == getCsvRecordValue(csvRow, parentOriginalExternalIdColumnName,
                                     childIdSField.fullOriginalName__r)
        id == Prop(MapGet(parentCSVExtIdMap, extIdValue), <<"Id">>)
    IN  IF Truthy(extIdValue) /\ MapHas(parentCSVExtIdMap, extIdValue)
        THEN MapSet(MapSet(csvRow, childIdSField.nameId, id),
                    childIdSField.fullIdName__r, id)
        ELSE csvRow

\* whether ChildRow changes the row
ChildRowMatches(csvRow, childIdSField, parentOriginalExternalIdColumnName, parentCSVExtIdMap) ==
    LET extIdValue == getCsvRecordValue(csvRow, parentOriginalExternalIdColumnName,
                                     childIdSField.fullOriginalName__r)
    IN  Truthy(extIdValue) /\ MapHas(parentCSVExtIdMap, extIdValue)

\* updateChildOriginalIdColumns with one issue for every child row that finds
\* no parent row
updateChildOriginalIdColumns_ReportUnmatched(currentFileMap, name, childIdSField, parentOriginalExternalIdColumnName, childFileMap) ==
    LET parentCSVExtIdMap ==
            RowsByValue(currentFileMap, parentOriginalExternalIdColumnName, 1, <<>>)
    IN  IF Len(childFileMap) = 0
        THEN RowsResult(childFileMap, 0, <<>>, FALSE)
        ELSE IF ~hasOwnProperty(FirstRow(childFileMap), childIdSField.fullOriginalName__r)
        THEN RowsResult(childFileMap, 0,
                        <<CsvIssue(childIdSField.sObject,
                                   childIdSField.fullOriginalName__r, null, name,
                                   <<"Id">>, null, "cantUpdateChildLookupCSVColumn")>>,
                        FALSE)
        ELSE RowsResult(
                 [i \in 1..Len(childFileMap) |->
                     [key |-> childFileMap[i].key,
                      value |-> ChildRow(childFileMap[i].value, childIdSField,
                                         parentOriginalExternalIdColumnName,
                                         parentCSVExtIdMap)]],
                 0,
                 [k \in 1..Cardinality({i \in 1..Len(childFileMap) :
                         ~ChildRowMatches(childFileMap[i].value, childIdSField,
                                          parentOriginalExternalIdColumnName,
                                          parentCSVExtIdMap)}) |->
                     CsvIssue(childIdSField.sObject, childIdSField.fullOriginalName__r,
                              null, name, <<"Id">>, null,
                              "missingParentRecordForGivenLookupValue")],
                 \E i \in 1..Len(childFileMap) :
                     ChildRowMatches(childFileMap[i].value, childIdSField,
                                     parentOriginalExternalIdColumnName,
                                     parentCSVExtIdMap))

\* ___updateChildOriginalIdColumnsAsync(childIdSField) past the read of the
\* child file, for a parent whose original external id is not "Id"
updateChildOriginalIdColumns(currentFileMap, name, childIdSField, parentOriginalExternalIdColumnName, childFileMap) ==
    LET parentCSVExtIdMap ==
            RowsByValue(currentFileMap, parentOriginalExternalIdColumnName, 1, <<>>)
    IN  IF Len(childFileMap) = 0
        THEN RowsResult(childFileMap, 0, <<>>, FALSE)
        ELSE IF ~hasOwnProperty(FirstRow(childFileMap), childIdSField.fullOriginalName__r)
        THEN RowsResult(childFileMap, 0,
                        <<CsvIssue(childIdSField.sObject,
                                   childIdSField.fullOriginalName__r, null, name,
                                   <<"Id">>, null, "cantUpdateChildLookupCSVColumn")>>,
                        FALSE)
        ELSE RowsResult(
                 [i \in 1..Len(childFileMap) |->
                     [key |-> childFileMap[i].key,
                      value |-> ChildRow(childFileMap[i].value, childIdSField,
                                         parentOriginalExternalIdColumnName,
                                         parentCSVExtIdMap)]],
                 0, <<>>,
                 \E i \in 1..Len(childFileMap) :
                     ChildRowMatches(childFileMap[i].value, childIdSField,
                                     parentOriginalExternalIdColumnName,
                                     parentCSVExtIdMap))

\* ------------------------------------------------------------------------
\* MigrationJob._loadSourceTargetFieldMappingFileAsync
\* ------------------------------------------------------------------------
\* new ObjectFieldMapping(sourceSObjectName, targetSObjectName): no field is
\* renamed yet
ObjectFieldMapping(sourceSObjectName, targetSObjectName) ==
    [ sourceSObjectName |-> sourceSObjectName,
      targetSObjectName |-> targetSObjectName,
      fieldMapping |-> <<>> ]

\* csvRows.forEach(row => ...): script.sourceTargetFieldMapping after the rows
\* from position i on
RECURSIVE loadSourceTargetFieldMappingRows(_, _, _, _)
loadSourceTargetFieldMappingRows(csvRows, i, mapping, objectsMap) ==
    IF i > Len(csvRows) THEN mapping
    ELSE LET row == csvRows[i]
             objectName == trim(String(Prop(row, <<"ObjectName">>)))
             name == getObjectByName(objectName)
             target == trim(String(Prop(row, <<"Target">>)))
             fieldName == trim(String(Prop(row, <<"FieldName">>)))
             objectFieldMapping ==
                 IF MapHas(mapping, objectName) THEN MapGet(mapping, objectName)
                 ELSE ObjectFieldMapping(objectName, objectName)
         IN  IF /\ Truthy(Prop(row, <<"ObjectName">>))
                /\ Truthy(Prop(row, <<"Target">>))
                /\ name # ""
                /\ objectsMap[name].useFieldMapping
             THEN loadSourceTargetFieldMappingRows(csvRows, i + 1,
                      IF ~Truthy(Prop(row, <<"FieldName">>))
                      THEN MapSet(mapping, objectName, ObjectFieldMapping(objectName, target))
                      ELSE MapSet(mapping, objectName,
                               [objectFieldMapping EXCEPT
                                   !.fieldMapping = MapSet(@, fieldName, target)]),
                      objectsMap)
             ELSE loadSourceTargetFieldMappingRows(csvRows, i + 1, mapping, objectsMap)

\* ------------------------------------------------------------------------
\* MigrationJob.processCSVFiles, step by step
\* ------------------------------------------------------------------------
\* the task the loop of _validateAndRepairSourceCSVFiles stands at
CsvTask == At(tasks, csvPc.taskIndex)

\* its file
CsvPath == sourceCsvFilename(CsvTask)

\* currentFileMap of the running repairCSV
currentFileMap == MapGet(cachedCSVContent.csvDataCacheMap, CsvPath)

\* cachedCSVContent with the file of path set to fileMap
WithFile(content, path, fileMap) ==
    [content EXCEPT !.csvDataCacheMap = MapSet(@, path, fileMap)]

\* WithUpdated, but the name added is that of the input file of the entity
WithUpdated_InputFile(content, path) ==
    [content EXCEPT !.updatedFilenames = @ \cup {csvFilename(path[2])}]

\* cachedCSVContent.updatedFilenames.add(path)
WithUpdated(content, path) ==
    [content EXCEPT !.updatedFilenames = @ \cup {path}]

CsvInits ==
    { [ D |-> D, order |-> order ] :
        D \in UpTo(CsvChanges, MaxCsvChanges), order \in Permutations_(CsvNames) }

\* the source media and the flags of the script a job can run under
CsvMedia == {"File", "Org"}

CsvScriptFlags ==
    { [NoScriptFlags EXCEPT !.importCSVFilesAsIs = asIs, !.validateCSVFilesOnly = only] :
        asIs \in BOOLEAN, only \in BOOLEAN }

InitCsv ==
    /\ \E i \in CsvInits :
          /\ objects = i.order
          /\ tasks = i.order
          /\ queryTasks = i.order
          /\ scriptObject = [name \in CsvNames |-> CsvScriptObject(name, i.D)]
          /\ disk = CsvDisk(i.D)
          /\ valueMappingFile = CsvValueMappingFile(i.D)
    /\ fieldMappingFile = <<>>
    /\ lowerIndexForAnyObjects = 0
    /\ lowerIndexForReadonlyObjects = 0
    /\ setupPc = "done"
    /\ objectIndex = Len(objects)
    /\ iteration = 0
    /\ swapped = FALSE
    /\ pass = NoPass
    /\ RetrieveNotStarted
    /\ \E media \in CsvMedia :
          sourceOrg = [media |-> media, rows |-> [name \in CsvNames |-> <<>>]]
    /\ script \in CsvScriptFlags
    /\ apiEngine = <<>>
    /\ targetOrg = [media |-> "Org", rows |-> [name \in CsvNames |-> <<>>]]
    /\ csvValuesMapping = <<>>
    /\ cachedCSVContent = EmptyCachedCSVContent
    /\ csvIssues = <<>>
    /\ csvPc = [NoCsvCall EXCEPT !.pc = "load"]
    /\ csvLog = <<>>

\* deleteSourceCSVDirectory(): the files of the source directory are gone
deleteSourceCSVDirectory(files) ==
    SelectSeq(files, LAMBDA file : file.key[1] # "source")

\* _copyCSVFilesToSourceSubDir(), from task i on: the file of a task that has
\* one is copied into the source directory
RECURSIVE copyCSVFilesToSourceSubDir(_, _, _)
copyCSVFilesToSourceSubDir(files, order, i) ==
    IF i > Len(order) THEN files
    ELSE copyCSVFilesToSourceSubDir(
             IF MapHas(files, csvFilename(order[i]))
             THEN MapSet(files, sourceCsvFilename(order[i]),
                         MapGet(files, csvFilename(order[i])))
             ELSE files,
             order, i + 1)

\* the copies _copyCSVFilesToSourceSubDir makes, as csvLog records them
CopiesMade(files, order) ==
    LET copied == SelectSeq(order, LAMBDA name : MapHas(files, csvFilename(name)))
    IN  [i \in 1..Len(copied) |->
            DiskAccess("copy", sourceCsvFilename(copied[i]),
                       MapGet(files, csvFilename(copied[i])))]

\* processCSVFiles with the validation and repair run for every source media
\* and import mode
RunsValidateAndRepair_Always(org, flags) == TRUE

\* the conditions under which processCSVFiles calls
\* _validateAndRepairSourceCSVFiles
RunsValidateAndRepair(org, flags) ==
    org.media = "File" /\ ~flags.importCSVFilesAsIs

\* processCSVFiles up to the call of _validateAndRepairSourceCSVFiles: the
\* value mapping file and the field mapping file are loaded; with a file
\* source the source directory is made anew from the input files (the model
\* has no User or Group file to merge); without the call the function returns
ProcessCSVFiles ==
    /\ csvPc.pc = "load"
    /\ csvValuesMapping' = loadValueMappingRows(valueMappingFile, 1, <<>>, scriptObject)
    /\ script' = [script EXCEPT
                     !.sourceTargetFieldMapping =
                         loadSourceTargetFieldMappingRows(fieldMappingFile, 1, @, scriptObject)]
    /\ IF sourceOrg.media = "File"
       THEN /\ disk' = copyCSVFilesToSourceSubDir(deleteSourceCSVDirectory(disk), tasks, 1)
            /\ csvLog' = csvLog \o CopiesMade(disk, tasks)
       ELSE /\ disk' = disk
            /\ csvLog' = csvLog
    /\ csvPc' = IF RunsValidateAndRepair(sourceOrg, script)
                THEN [csvPc EXCEPT !.pc = "validate", !.taskIndex = 0]
                ELSE [csvPc EXCEPT !.pc = "done"]
    /\ UNCHANGED <<setupVars, retrieveVars, engineVars, valueMappingFile, fieldMappingFile,
                   cachedCSVContent, csvIssues>>

\* the step after the validation that asks nobody
AfterValidation_NoPrompt(issues) == "repair"

\* if (this.csvIssues.length > 0) await ___promptToAbort(), before the loop of
\* repairCSV calls
AfterValidation(issues) == IF Len(issues) > 0 THEN "prompt" ELSE "repair"

\* one turn of the first loop: this.csvIssues.concat(await task.validateCSV());
\* past the last task, the issues found decide whether the user is asked
ValidateCSV ==
    /\ csvPc.pc = "validate"
    /\ csvIssues' = csvIssues \o validateCSV(CsvTask, disk, scriptObject)
    /\ csvLog' = IF MapHas(disk, CsvPath)
                 THEN Append(csvLog, DiskAccess("readHeader", CsvPath, <<>>))
                 ELSE csvLog
    /\ csvPc' = IF csvPc.taskIndex + 1 < Len(tasks)
                THEN [csvPc EXCEPT !.taskIndex = @ + 1]
                ELSE [csvPc EXCEPT !.taskIndex = 0,
                                   !.pc = AfterValidation(csvIssues')]
    /\ UNCHANGED <<setupVars, retrieveVars, engineVars, script, disk, valueMappingFile, fieldMappingFile, csvValuesMapping,
                   cachedCSVContent>>

\* ___promptToAbort() after the validation: the user continues, or aborts and
\* the issues report is saved
PromptToAbort ==
    /\ csvPc.pc = "prompt"
    /\ \E continue \in BOOLEAN :
          IF continue
          THEN /\ csvPc' = [csvPc EXCEPT !.pc = "repair", !.noAbortPrompt = TRUE]
               /\ csvLog' = csvLog
          ELSE /\ csvPc' = [csvPc EXCEPT !.pc = "aborted"]
               /\ csvLog' = Append(csvLog, DiskAccess("report", <<>>, csvIssues))
    /\ UNCHANGED <<setupVars, retrieveVars, engineVars, script, disk, valueMappingFile, fieldMappingFile, csvValuesMapping,
                   cachedCSVContent, csvIssues>>

\* the loop of repairCSV calls moves on: the issues of the call are added,
\* the next task is repaired or, past the last, the files are saved
ReturnFromRepairCSV(pc, issues) ==
    /\ csvIssues' = csvIssues \o issues
    /\ csvPc' = IF pc.taskIndex + 1 < Len(tasks)
                THEN [pc EXCEPT !.pc = "repair", !.taskIndex = @ + 1, !.fieldIndex = 0,
                                !.issues = <<>>]
                ELSE [pc EXCEPT !.pc = "save", !.taskIndex = 0, !.fieldIndex = 0,
                                !.issues = <<>>]

\* csvDataCacheMapOf with a cache of its own for every call
csvDataCacheMapOf_Fresh(content) == <<>>

\* the cache a repairCSV call reads the files through
csvDataCacheMapOf(content) == content.csvDataCacheMap

\* repairCSV up to the first row: the file is read through the cache; an
\* empty or missing file ends the call
RepairCSV ==
    /\ csvPc.pc = "repair"
    /\ LET cache == csvDataCacheMapOf(cachedCSVContent)
           fileMap == readCsvFileOnceAsync(cache, disk, CsvPath)
       IN  /\ cachedCSVContent' =
                 [cachedCSVContent EXCEPT
                     !.csvDataCacheMap = CacheAfterRead(cache, disk, CsvPath)]
           /\ csvLog' = LogAfterRead(csvLog, cache, disk, CsvPath)
           /\ IF Len(fileMap) = 0
              THEN ReturnFromRepairCSV(csvPc, <<>>)
              ELSE /\ csvPc' = [csvPc EXCEPT !.pc = "trim", !.issues = <<>>]
                   /\ csvIssues' = csvIssues
    /\ UNCHANGED <<setupVars, retrieveVars, engineVars, script, disk, valueMappingFile, fieldMappingFile, csvValuesMapping>>

\* ___trimColumnNames(firstRow)
TrimColumnNames ==
    /\ csvPc.pc = "trim"
    /\ cachedCSVContent' =
          IF Len(columnsToUpdate(FirstRow(currentFileMap))) > 0
          THEN WithUpdated(WithFile(cachedCSVContent, CsvPath,
                                    trimColumnNames(currentFileMap)), CsvPath)
          ELSE cachedCSVContent
    /\ csvPc' = [csvPc EXCEPT !.pc = "map"]
    /\ UNCHANGED <<setupVars, retrieveVars, engineVars, script, disk, valueMappingFile, fieldMappingFile, csvValuesMapping,
                   csvIssues, csvLog>>

\* if (useCSVValuesMapping && csvValuesMapping.size > 0)
\*     ___updateWithCSVValueMapping(firstRow)
UpdateWithCSVValueMapping ==
    /\ csvPc.pc = "map"
    /\ cachedCSVContent' =
          IF scriptObject[CsvTask].useCSVValuesMapping /\ Len(csvValuesMapping) > 0
          THEN WithUpdated(WithFile(cachedCSVContent, CsvPath,
                                    updateWithCSVValueMapping(currentFileMap, CsvTask,
                                                              csvValuesMapping)),
                           CsvPath)
          ELSE cachedCSVContent
    /\ csvPc' = [csvPc EXCEPT !.pc = "id"]
    /\ UNCHANGED <<setupVars, retrieveVars, engineVars, script, disk, valueMappingFile, fieldMappingFile, csvValuesMapping,
                   csvIssues, csvLog>>

\* if (!firstRow.hasOwnProperty("Id")) ___addMissingIdColumn(), and on to the
\* child fields; straight to the lookup columns otherwise
AddMissingIdColumn ==
    /\ csvPc.pc = "id"
    /\ IF ~hasOwnProperty(FirstRow(currentFileMap), <<"Id">>)
       THEN /\ cachedCSVContent' =
                  WithUpdated(WithFile(cachedCSVContent, CsvPath,
                                       addMissingIdColumn(currentFileMap)), CsvPath)
            /\ csvPc' = [csvPc EXCEPT
                  !.pc = IF Len(scriptObject[CsvTask].child__rSFields) > 0
                         THEN "child" ELSE "lookup",
                  !.fieldIndex = 0]
       ELSE /\ cachedCSVContent' = cachedCSVContent
            /\ csvPc' = [csvPc EXCEPT !.pc = "lookup", !.fieldIndex = 0]
    /\ UNCHANGED <<setupVars, retrieveVars, engineVars, script, disk, valueMappingFile, fieldMappingFile, csvValuesMapping,
                   csvIssues, csvLog>>

\* job.getTaskBySObjectName(name) finds a task
HasTask(name) == \E i \in 1..Len(tasks) : tasks[i] = name

\* one turn of the loop over child__rSFields:
\* await ___updateChildOriginalIdColumnsAsync(child__rSFields[fieldIndex].idSField)
UpdateChildOriginalIdColumns ==
    /\ csvPc.pc = "child"
    /\ LET object == scriptObject[CsvTask]
           childIdSField == At(object.child__rSFields, csvPc.fieldIndex)
           childPath == sourceCsvFilename(childIdSField.sObject)
           cache == csvDataCacheMapOf(cachedCSVContent)
           childFileMap == readCsvFileOnceAsync(cache, disk, childPath)
           result == updateChildOriginalIdColumns(currentFileMap, CsvTask, childIdSField,
                                                  object.originalExternalId, childFileMap)
           read == [cachedCSVContent EXCEPT
                       !.csvDataCacheMap = CacheAfterRead(cache, disk, childPath)]
           next == [csvPc EXCEPT
                       !.pc = IF csvPc.fieldIndex + 1 < Len(object.child__rSFields)
                              THEN "child" ELSE "lookup",
                       !.fieldIndex = IF csvPc.fieldIndex + 1 < Len(object.child__rSFields)
                                      THEN @ + 1 ELSE 0]
       IN  IF object.originalExternalId # <<"Id">> /\ HasTask(childIdSField.sObject)
           THEN /\ csvLog' = LogAfterRead(csvLog, cache, disk, childPath)
                /\ cachedCSVContent' =
                      IF result.isFileChanged
                      THEN WithUpdated(WithFile(read, childPath, result.fileMap), childPath)
                      ELSE read
                /\ csvPc' = [next EXCEPT !.issues = @ \o result.issues]
           ELSE /\ csvLog' = csvLog
                /\ cachedCSVContent' = cachedCSVContent
                /\ csvPc' = next
    /\ UNCHANGED <<setupVars, retrieveVars, engineVars, script, disk, valueMappingFile, fieldMappingFile, csvValuesMapping,
                   csvIssues>>

\* the condition of the loop over fieldsInQuery for field i
LookupColumnsMissing(object, firstRow, i) ==
    LET sField == At(object.fieldsInQuery, i)
    IN  /\ sField.isReference
        /\ \/ ~hasOwnProperty(firstRow, sField.fullName__r)
           \/ ~hasOwnProperty(firstRow, sField.nameId)

\* the fields of the loop over fieldsInQuery, from fieldIndex on, that call
\* ___addMissingLookupColumnsAsync
LookupTurns ==
    {i \in csvPc.fieldIndex..(Len(scriptObject[CsvTask].fieldsInQuery) - 1) :
        LookupColumnsMissing(scriptObject[CsvTask], FirstRow(currentFileMap), i)}

\* the next turn of the loop over fieldsInQuery that calls
\* await ___addMissingLookupColumnsAsync(sField)
AddMissingLookupColumns ==
    /\ csvPc.pc = "lookup"
    /\ LookupTurns # {}
    /\ LET i == CHOOSE k \in LookupTurns : \A j \in LookupTurns : k <= j
           sField == At(scriptObject[CsvTask].fieldsInQuery, i)
           parent == sField.parentLookupObject
           parentPath == sourceCsvFilename(parent)
           cache == csvDataCacheMapOf(cachedCSVContent)
           parentFileMap == readCsvFileOnceAsync(cache, disk, parentPath)
           result == addMissingLookupColumns(currentFileMap, CsvTask, sField,
                                             scriptObject[parent].externalId,
                                             parentFileMap, cachedCSVContent.idCounter)
           read == [cachedCSVContent EXCEPT
                       !.csvDataCacheMap = CacheAfterRead(cache, disk, parentPath)]
       IN  IF HasTask(parent)
           THEN /\ csvLog' = LogAfterRead(csvLog, cache, disk, parentPath)
                /\ cachedCSVContent' =
                      LET written == [WithFile(read, CsvPath, result.fileMap)
                                          EXCEPT !.idCounter = result.idCounter]
                      IN  IF result.isFileChanged THEN WithUpdated(written, CsvPath)
                          ELSE written
                /\ csvPc' = [csvPc EXCEPT !.fieldIndex = i + 1,
                                          !.issues = @ \o result.issues]
           ELSE /\ csvLog' = csvLog
                /\ cachedCSVContent' = cachedCSVContent
                /\ csvPc' = [csvPc EXCEPT !.fieldIndex = i + 1]
    /\ UNCHANGED <<setupVars, retrieveVars, engineVars, script, disk, valueMappingFile, fieldMappingFile, csvValuesMapping,
                   csvIssues>>

\* the loop over fieldsInQuery is over: return csvIssues
EndRepairCSV ==
    /\ csvPc.pc = "lookup"
    /\ LookupTurns = {}
    /\ ReturnFromRepairCSV(csvPc, csvPc.issues)
    /\ UNCHANGED <<setupVars, retrieveVars, engineVars, script, disk, valueMappingFile, fieldMappingFile, csvValuesMapping,
                   cachedCSVContent, csvLog>>

\* IsUpdated without the test: every cached file counts as updated
IsUpdated_Always(content, filePath) == TRUE

\* if (this.cachedCSVContent.updatedFilenames.has(filePath))
IsUpdated(content, filePath) == filePath \in content.updatedFilenames

\* one turn of the loop of saveCachedCsvDataFiles over the cached paths
SaveCachedCsvDataFiles ==
    /\ csvPc.pc = "save"
    /\ csvPc.fieldIndex < Len(cachedCSVContent.csvDataCacheMap)
    /\ LET filePath == At(MapKeys(cachedCSVContent.csvDataCacheMap), csvPc.fieldIndex)
           csvData == MapGet(cachedCSVContent.csvDataCacheMap, filePath)
       IN  IF IsUpdated(cachedCSVContent, filePath)
           THEN /\ disk' = MapSet(disk, filePath, MapValues(csvData))
                /\ csvLog' = Append(csvLog,
                                    DiskAccess("write", filePath, MapValues(csvData)))
           ELSE /\ disk' = disk
                /\ csvLog' = csvLog
    /\ csvPc' = [csvPc EXCEPT !.fieldIndex = @ + 1]
    /\ UNCHANGED <<setupVars, retrieveVars, engineVars, script, valueMappingFile, fieldMappingFile, csvValuesMapping,
                   cachedCSVContent, csvIssues>>

\* CachedCSVContent.clear()
clear(content) == [content EXCEPT !.csvDataCacheMap = <<>>, !.updatedFilenames = {}]

\* AsksAfterSave without the test of noAbortPrompt
AsksAfterSave_Again(issues, noAbortPrompt) == Len(issues) > 0

\* if (this.csvIssues.length > 0) { if (!noAbortPrompt) await ___promptToAbort()
\* after saveCachedCsvDataFiles
AsksAfterSave(issues, noAbortPrompt) == Len(issues) > 0 /\ ~noAbortPrompt

\* the end of _validateAndRepairSourceCSVFiles and of processCSVFiles: with
\* issues, the user is asked unless asked before, and the report is saved;
\* then throw new SuccessExit() of a script that only validates, or
\* this.clearCachedCSVData()
EndProcessCSVFiles ==
    /\ csvPc.pc = "save"
    /\ csvPc.fieldIndex >= Len(cachedCSVContent.csvDataCacheMap)
    /\ \E continue \in BOOLEAN :
          IF AsksAfterSave(csvIssues, csvPc.noAbortPrompt) /\ ~continue
          THEN /\ csvPc' = [csvPc EXCEPT !.pc = "aborted"]
               /\ csvLog' = Append(csvLog, DiskAccess("report", <<>>, csvIssues))
               /\ cachedCSVContent' = cachedCSVContent
          ELSE /\ csvPc' = [csvPc EXCEPT !.pc = IF script.validateCSVFilesOnly
                                                THEN "SuccessExit" ELSE "done"]
               /\ csvLog' = IF Len(csvIssues) > 0 /\ csvPc.noAbortPrompt
                            THEN Append(csvLog, DiskAccess("report", <<>>, csvIssues))
                            ELSE csvLog
               /\ cachedCSVContent' = IF script.validateCSVFilesOnly THEN cachedCSVContent
                                      ELSE clear(cachedCSVContent)
    /\ UNCHANGED <<setupVars, retrieveVars, engineVars, script, disk, valueMappingFile, fieldMappingFile,
                   csvValuesMapping, csvIssues>>

\* the files of the source directory, as input files
SourceDirectoryAsInput(files) ==
    LET source == SelectSeq(files, LAMBDA file : file.key[1] = "source")
    IN  [i \in 1..Len(source) |->
            [key |-> csvFilename(source[i].key[2]), value |-> source[i].value]]

\* a new job whose input files are the source files the finished job left:
\* its fields are those of a constructed job
NewMigrationJob ==
    /\ csvPc.pc = "done"
    /\ csvPc.run = 1
    /\ RunsValidateAndRepair(sourceOrg, script)
    /\ disk' = SourceDirectoryAsInput(disk)
    /\ csvValuesMapping' = <<>>
    /\ cachedCSVContent' = EmptyCachedCSVContent
    /\ csvIssues' = <<>>
    /\ csvLog' = <<>>
    /\ csvPc' = [NoCsvCall EXCEPT !.pc = "load", !.run = 2]
    /\ UNCHANGED <<setupVars, retrieveVars, engineVars, script, valueMappingFile, fieldMappingFile>>

NextCsv ==
    \/ ProcessCSVFiles
    \/ ValidateCSV
    \/ PromptToAbort
    \/ RepairCSV
    \/ TrimColumnNames
    \/ UpdateWithCSVValueMapping
    \/ AddMissingIdColumn
    \/ UpdateChildOriginalIdColumns
    \/ AddMissingLookupColumns
    \/ EndRepairCSV
    \/ SaveCachedCsvDataFiles
    \/ EndProcessCSVFiles
    \/ NewMigrationJob

SpecCsv == InitCsv /\ [][NextCsv]_vars

\* ------------------------------------------------------------------------
\* Properties of the validation
\* ------------------------------------------------------------------------
\* the issues the step adds to job.csvIssues
AddedIssues == SubSeq(csvIssues', Len(csvIssues) + 1, Len(csvIssues'))

\* the file of the task the loop stands at is missing or has no row
CsvFileMissingOrEmpty == ~MapHas(disk, CsvPath) \/ Len(MapGet(disk, CsvPath)) = 0

\* C17: validateCSV of a task whose file is missing or empty adds exactly one
\* issue, which names the entity and no field, and checks no header column:
\* nothing else is added and the earlier issues stay
C17_EmptyFileOneIssue ==
    [][ csvPc.pc = "validate" /\ CsvFileMissingOrEmpty
        => /\ Len(csvIssues') = Len(csvIssues) + 1
           /\ SubSeq(csvIssues', 1, Len(csvIssues)) = csvIssues
           /\ csvIssues'[Len(csvIssues')].childSObject = CsvTask
           /\ csvIssues'[Len(csvIssues')].childField = null
           /\ csvIssues'[Len(csvIssues')].error = "csvFileIsEmpty" ]_vars

\* a missing file and an empty file have both been validated
C17_Witness ==
    /\ csvPc.pc = "prompt"
    /\ ~MapHas(disk, sourceCsvFilename("Case"))
    /\ MapHas(disk, sourceCsvFilename("CaseComment"))
    /\ Len(MapGet(disk, sourceCsvFilename("CaseComment"))) = 0
    /\ Len(csvIssues) = 2

\* string s has string part as one of its dot-separated parts, the last one
\* when onlyLast
HasSegment(s, part, onlyLast) ==
    \E i \in 1..Len(s) :
        LET j == i + Len(part) - 1
        IN  /\ j <= Len(s)
            /\ SubSeq(s, i, j) = part
            /\ i = 1 \/ s[i - 1] = "."
            /\ IF onlyLast THEN j = Len(s) ELSE j = Len(s) \/ s[j + 1] = "."

\* the header of the file of the task the loop stands at
CsvHeader == ObjectKeys(MapGet(disk, CsvPath)[1])

\* how many of the added issues report field F as a missing column
MissingColumnIssues(F) ==
    Cardinality({i \in 1..Len(AddedIssues) :
                    /\ AddedIssues[i].childField = F
                    /\ AddedIssues[i].error = "columnsMissingInCSV"})

\* C18 as stated: validateCSV reports exactly one missing-column issue for a
\* required field F when no header column equals F exactly and none has F as
\* its last dot-separated part, and none otherwise
C18_MissingColumnExactOrFinal ==
    [][ csvPc.pc = "validate" /\ ~CsvFileMissingOrEmpty
        => \A k \in 1..Len(scriptObject[CsvTask].fieldsToUpdate) :
              LET F == scriptObject[CsvTask].fieldsToUpdate[k]
                  present == \E c \in 1..Len(CsvHeader) :
                                 \/ CsvHeader[c] = F
                                 \/ HasSegment(CsvHeader[c], F, TRUE)
              IN  MissingColumnIssues(F) = IF present THEN 0 ELSE 1 ]_vars

\* C18: validateCSV reports exactly one missing-column issue for a required
\* field F when no header column, once trimmed, equals F or has F as any of
\* its dot-separated parts, and none otherwise
C18_MissingColumnAnySegment ==
    [][ csvPc.pc = "validate" /\ ~CsvFileMissingOrEmpty
        => \A k \in 1..Len(scriptObject[CsvTask].fieldsToUpdate) :
              LET F == scriptObject[CsvTask].fieldsToUpdate[k]
                  present == \E c \in 1..Len(CsvHeader) :
                                 HasSegment(trim(CsvHeader[c]), F, FALSE)
              IN  MissingColumnIssues(F) = IF present THEN 0 ELSE 1 ]_vars

\* the file of Case was validated with a column "Type.X" and without the
\* column Subject: one issue, for Subject
C18_Witness ==
    /\ csvPc.pc = "prompt"
    /\ MapHas(disk, sourceCsvFilename("Case"))
    /\ Len(MapGet(disk, sourceCsvFilename("Case"))) > 0
    /\ hasOwnProperty(MapGet(disk, sourceCsvFilename("Case"))[1], <<"Type", ".", "X">>)
    /\ Len(csvIssues) = 1
    /\ csvIssues[1].childSObject = "Case"
    /\ csvIssues[1].childField = <<"Subject">>

\* ------------------------------------------------------------------------
\* Properties of the repair
\* ------------------------------------------------------------------------
\* the file of the running repairCSV after the step
currentFileMapAfter == MapGet(cachedCSVContent'.csvDataCacheMap, CsvPath)

\* the header names the trim step finds changed by trimming
PaddedColumns ==
    {k \in Elems(ObjectKeys(FirstRow(currentFileMap))) : trim(k) # k}

\* C19: after ___trimColumnNames no column name of the file begins or ends
\* with a blank, each renamed column carries in every row the value the
\* original column carried, the file is added to updatedFilenames when a
\* header name changed and updatedFilenames is left alone otherwise, and the
\* step applied again changes nothing
C19_TrimColumnNames ==
    [][ csvPc.pc = "trim"
        => /\ \A i \in 1..Len(currentFileMapAfter) :
                 \A k \in Elems(ObjectKeys(currentFileMapAfter[i].value)) : trim(k) = k
           /\ \A c \in PaddedColumns :
                 \A i \in 1..Len(currentFileMap) :
                    Prop(currentFileMapAfter[i].value, trim(c))
                        = Prop(currentFileMap[i].value, c)
           /\ IF PaddedColumns # {}
              THEN CsvPath \in cachedCSVContent'.updatedFilenames
              ELSE cachedCSVContent'.updatedFilenames = cachedCSVContent.updatedFilenames
           /\ trimColumnNames(currentFileMapAfter) = currentFileMapAfter ]_vars

\* the rows of the value mapping file that are rules of column C of entity E
\* for the value v: object, field and raw value compared after trimming
RulesFor(E, C, v) ==
    {r \in 1..Len(valueMappingFile) :
        /\ scriptObject[E].hasValueMapping
        /\ trim(Prop(valueMappingFile[r], <<"ObjectName">>)) = sObjectName(E)
        /\ trim(Prop(valueMappingFile[r], <<"FieldName">>)) = C
        /\ trim(Prop(valueMappingFile[r], <<"RawValue">>)) = trim(v)}

\* the mapped value of the last of a set of rules
LastRuleValue(rules) ==
    trim(Prop(valueMappingFile[CHOOSE r \in rules : \A q \in rules : q <= r],
              <<"Value">>))

\* ___updateWithCSVValueMapping runs in this step
MappingStep ==
    /\ csvPc.pc = "map"
    /\ scriptObject[CsvTask].useCSVValuesMapping
    /\ Len(csvValuesMapping) > 0

\* C20: with a rule (E, C, raw -> mapped), the value mapping step rewrites to
\* mapped every value of column C of the file of E that equals raw after
\* trimming, and leaves every value no rule of its column matches unchanged
C20_ValueMapping ==
    [][ MappingStep
        => \A i \in 1..Len(currentFileMap) :
              \A C \in Elems(ObjectKeys(currentFileMap[i].value)) :
                 LET v == Prop(currentFileMap[i].value, C)
                     rules == RulesFor(CsvTask, C, v)
                 IN  Prop(currentFileMapAfter[i].value, C)
                         = IF rules # {} THEN LastRuleValue(rules) ELSE v ]_vars

\* the rows of the value mapping file that are rules of column C of entity E,
\* in the order of the file
RulesOfColumn(E, C) ==
    LET OfColumn(row) ==
            /\ trim(Prop(row, <<"ObjectName">>)) = sObjectName(E)
            /\ trim(Prop(row, <<"FieldName">>)) = C
    IN  SelectSeq(valueMappingFile, OfColumn)

\* column C of the file of the running repairCSV as the value mapping step
\* leaves it when only the rules of column C of the entity are loaded
ColumnMappedByOwnRules(C) ==
    LET mapping == loadValueMappingRows(RulesOfColumn(CsvTask, C), 1, <<>>, scriptObject)
        mapped == updateWithCSVValueMapping(currentFileMap, CsvTask, mapping)
    IN  [i \in 1..Len(currentFileMap) |-> Prop(mapped[i].value, C)]

\* C30: the value mapping step leaves in every column C of the file of entity
\* E the values the rules of (E, C) alone produce, so two rule sets with the
\* same rules of (E, C) give the same column and a rule of another (entity,
\* column) pair changes no value of it
C30_RulesIsolatedPerColumn ==
    [][ MappingStep
        => \A C \in Elems(ObjectKeys(FirstRow(currentFileMap))) :
              [i \in 1..Len(currentFileMap) |-> Prop(currentFileMapAfter[i].value, C)]
                  = ColumnMappedByOwnRules(C) ]_vars

\* ------------------------------------------------------------------------
\* Properties of the file cache
\* ------------------------------------------------------------------------
\* the paths of the source files
CsvPaths == {sourceCsvFilename(name) : name \in CsvNames}

\* how many disk accesses of the kinds ops the job has made to path
Accesses(ops, path) ==
    Cardinality({i \in 1..Len(csvLog) : csvLog[i].op \in ops /\ csvLog[i].path = path})

\* the job is validating or repairing a task
ValidatingOrRepairing ==
    csvPc.pc \in {"validate", "prompt", "repair", "trim", "map", "id", "child", "lookup"}

\* saveCachedCsvDataFiles has made its last turn
Flushed ==
    csvPc.pc = "save" /\ csvPc.fieldIndex >= Len(cachedCSVContent.csvDataCacheMap)

\* C14: while a task is validated or repaired no source file is written; when
\* saveCachedCsvDataFiles is through, each path of updatedFilenames has been
\* written exactly once, with the rows the cache holds, and no other path
\* has been written
C14_FlushAfterRepair ==
    /\ [][ ValidatingOrRepairing
           => disk' = disk /\ \A p \in CsvPaths : Accesses({"write"}, p)' = 0 ]_vars
    /\ [](Flushed
          => \A p \in CsvPaths :
                IF p \in cachedCSVContent.updatedFilenames
                THEN /\ Accesses({"write"}, p) = 1
                     /\ MapHas(cachedCSVContent.csvDataCacheMap, p)
                     /\ MapGet(disk, p)
                            = MapValues(MapGet(cachedCSVContent.csvDataCacheMap, p))
                ELSE Accesses({"write"}, p) = 0)

\* the flush is through with one cached file written and one cached file left
\* alone
C14_Witness ==
    /\ Flushed
    /\ Len(cachedCSVContent.csvDataCacheMap) = 2
    /\ Cardinality(cachedCSVContent.updatedFilenames) = 1
    /\ \E p \in CsvPaths : Accesses({"write"}, p) = 1

\* C15 as stated: a job reads no source file from disk more than once, the
\* header read of the validation included
C15_OneDiskReadPerPath ==
    \A p \in CsvPaths : Accesses({"readHeader", "read"}, p) <= 1

\* C15: while the files are validated and repaired, each source file is read in
\* full and parsed at most once, by the first repair step that needs it; a
\* later repair read of a cached file reads nothing from disk and works on
\* the rows the cache holds; the validation reads the header of each file
\* once, from disk
C15_OneFullReadPerPath ==
    /\ [](\A p \in CsvPaths :
             Accesses({"read"}, p) <= 1 /\ Accesses({"readHeader"}, p) <= 1)
    /\ [][ csvPc.pc = "repair" /\ MapHas(cachedCSVContent.csvDataCacheMap, CsvPath)
           => /\ csvLog' = csvLog
              /\ cachedCSVContent' = cachedCSVContent
              /\ csvPc'.pc = "trim" => currentFileMapAfter = currentFileMap ]_vars

\* the repair of CaseComment starts from the rows the repair of Case left in
\* the cache, which differ from the rows on disk, after one read of the file
C15_Witness ==
    /\ csvPc.pc = "trim"
    /\ CsvTask = "CaseComment"
    /\ Accesses({"read"}, CsvPath) = 1
    /\ CsvPath \in cachedCSVContent.updatedFilenames
    /\ MapValues(currentFileMap) # MapGet(disk, CsvPath)

\* C16: a second job over the files a complete repair left, with the same
\* value mapping rules, adds no path to updatedFilenames and no repair issue
C16_RepairIdempotent ==
    csvPc.run = 2 => cachedCSVContent.updatedFilenames = {} /\ csvPc.issues = <<>>

\* a sub-step of repairCSV is to run
RepairStep == csvPc.pc \in {"trim", "map", "id", "child", "lookup"}

\* the paths the step adds to updatedFilenames
AddedToUpdated ==
    cachedCSVContent'.updatedFilenames \ cachedCSVContent.updatedFilenames

\* the step changes at least one row of the file of path, compared with the
\* rows the cache holds or, for a file the step reads, the rows read
RowsChanged(path) ==
    /\ MapHas(cachedCSVContent'.csvDataCacheMap, path)
    /\ MapGet(cachedCSVContent'.csvDataCacheMap, path)
           # readCsvFileOnceAsync(cachedCSVContent.csvDataCacheMap, disk, path)

\* C31: a step of repairCSV adds a path to updatedFilenames only if it changed
\* at least one row of the cached file of that path, so a repair that changes
\* no row leaves updatedFilenames as it was
C31_DirtyOnlyIfChanged ==
    [][ RepairStep => \A p \in AddedToUpdated : RowsChanged(p) ]_vars


\* the paths the cache holds a file for
CachedPaths == Elems(MapKeys(cachedCSVContent.csvDataCacheMap))

\* C37: at every point of a job every path of updatedFilenames is a key of
\* csvDataCacheMap, so that saveCachedCsvDataFiles, which goes through the
\* keys of the cache, has written every path of updatedFilenames when it is
\* through
C37_DirtyPathsAreCached ==
    /\ cachedCSVContent.updatedFilenames \subseteq CachedPaths
    /\ Flushed => \A p \in cachedCSVContent.updatedFilenames : Accesses({"write"}, p) >= 1

\* the repair of Case has put the file of CaseComment, not yet repaired itself,
\* into updatedFilenames next to its own
C37_Witness ==
    /\ csvPc.pc = "lookup"
    /\ CsvTask = "Case"
    /\ cachedCSVContent.updatedFilenames = CsvPaths
    /\ csvPc.taskIndex = 0

\* ------------------------------------------------------------------------
\* Properties of the identifier and lookup columns
\* ------------------------------------------------------------------------
\* no file has been written since the job read the source files
NothingSaved == \A i \in 1..Len(csvLog) : csvLog[i].op # "write"

\* the tasks whose repairCSV call has returned, or has passed the Id step
PastIdStep ==
    IF csvPc.pc \in {"repair", "trim", "map", "id"}
    THEN {tasks[k] : k \in 1..csvPc.taskIndex}
    ELSE IF csvPc.pc \in {"child", "lookup"}
    THEN {tasks[k] : k \in 1..(csvPc.taskIndex + 1)}
    ELSE IF csvPc.pc = "save" /\ NothingSaved THEN Elems(tasks)
    ELSE {}

\* the rows of the source file of an entity, as they are on disk
SourceRows(name) ==
    IF MapHas(disk, sourceCsvFilename(name))
    THEN MapGet(disk, sourceCsvFilename(name)) ELSE <<>>

\* the first row of the source file has a column of this name, blanks around
\* the header name aside
SourceHasColumn(name, column) ==
    \E k \in Elems(ObjectKeys(SourceRows(name)[1])) : trim(k) = column

\* the cached file of an entity
CachedFile(name) == MapGet(cachedCSVContent.csvDataCacheMap, sourceCsvFilename(name))

ChildStep ==
    /\ csvPc.pc = "child"
    /\ scriptObject[CsvTask].originalExternalId # <<"Id">>
    /\ HasTask(At(scriptObject[CsvTask].child__rSFields, csvPc.fieldIndex).sObject)

ChildField == At(scriptObject[CsvTask].child__rSFields, csvPc.fieldIndex)

ChildFileBefore ==
    readCsvFileOnceAsync(cachedCSVContent.csvDataCacheMap, disk,
                         sourceCsvFilename(ChildField.sObject))

ChildFileAfter ==
    IF Len(ChildFileBefore) = 0 THEN <<>>
    ELSE MapGet(cachedCSVContent'.csvDataCacheMap, sourceCsvFilename(ChildField.sObject))

\* the rows of the parent whose external id is the relationship value of a
\* child row
MatchingParents(childRow) ==
    {j \in 1..Len(currentFileMap) :
        /\ hasOwnProperty(childRow, ChildField.fullOriginalName__r)
        /\ Truthy(Prop(childRow, ChildField.fullOriginalName__r))
        /\ Prop(currentFileMap[j].value, scriptObject[CsvTask].originalExternalId)
               = Prop(childRow, ChildField.fullOriginalName__r)}

\* the issues the step adds to those of the running repairCSV
AddedRepairIssues == SubSeq(csvPc'.issues, Len(csvPc.issues) + 1, Len(csvPc'.issues))

\* C22 as stated: the child propagation records one issue for every row of
\* the dependent file whose relationship value matches no row of P, and none
\* for a row that matches
C22_IssuePerUnmatchedRow ==
    [][ ChildStep
        => Len(AddedRepairIssues)
               = Cardinality({i \in 1..Len(ChildFileBefore) :
                                 MatchingParents(ChildFileBefore[i].value) = {}}) ]_vars

\* C22: the child propagation records no issue for a row of the dependent
\* file, matching or not: a matching row gets the Id of its parent row in the
\* lookup-id column and in the Id relationship column, any other row is left
\* as it is; the one issue of the step is that of a dependent file whose
\* first row lacks the relationship column
C22_IssuePerChildFile ==
    [][ ChildStep
        => /\ Len(AddedRepairIssues)
                 = IF /\ Len(ChildFileBefore) > 0
                      /\ ~hasOwnProperty(FirstRow(ChildFileBefore),
                                         ChildField.fullOriginalName__r)
                   THEN 1 ELSE 0
           /\ \A i \in 1..Len(AddedRepairIssues) :
                 /\ AddedRepairIssues[i].childSObject = ChildField.sObject
                 /\ AddedRepairIssues[i].childValue = null
           /\ \A i \in 1..Len(ChildFileBefore) :
                 LET before == ChildFileBefore[i].value
                     after == ChildFileAfter[i].value
                 IN  IF /\ MatchingParents(before) # {}
                        /\ hasOwnProperty(FirstRow(ChildFileBefore),
                                          ChildField.fullOriginalName__r)
                     THEN /\ \E j \in MatchingParents(before) :
                                Prop(after, ChildField.nameId)
                                    = Prop(currentFileMap[j].value, <<"Id">>)
                          /\ Prop(after, ChildField.fullIdName__r)
                                 = Prop(after, ChildField.nameId)
                     ELSE after = before ]_vars

\* the propagation from Case has run over a dependent file with a row that
\* matches and a row that does not, and has recorded no issue
C22_Witness ==
    /\ csvPc.pc = "lookup"
    /\ CsvTask = "Case"
    /\ sourceCsvFilename("CaseComment") \in cachedCSVContent.updatedFilenames
    /\ csvPc.issues = <<>>
    /\ \E i \in 1..Len(CachedFile("CaseComment")) :
          Prop(CachedFile("CaseComment")[i].value, <<"Parent", ".", "Subject">>) = <<"S9">>
    /\ \E i \in 1..Len(CachedFile("CaseComment")) :
          hasOwnProperty(CachedFile("CaseComment")[i].value, <<"Parent", ".", "Id">>)

\* ___addMissingLookupColumnsAsync runs in this step, for the field LookupField
\* of the task, whose parent has a task
LookupField ==
    At(scriptObject[CsvTask].fieldsInQuery,
       CHOOSE k \in LookupTurns : \A j \in LookupTurns : k <= j)

LookupStep ==
    /\ csvPc.pc = "lookup"
    /\ LookupTurns # {}
    /\ HasTask(LookupField.parentLookupObject)

\* the rows of the parent file as the step finds them
ParentRows ==
    LET file == readCsvFileOnceAsync(cachedCSVContent.csvDataCacheMap, disk,
                                     sourceCsvFilename(LookupField.parentLookupObject))
    IN  {file[j].value : j \in 1..Len(file)}

\* the parent rows a row of the file refers to by the one lookup column it has
ParentsOf(row) ==
    IF hasOwnProperty(row, LookupField.fullName__r)
    THEN {p \in ParentRows :
             Prop(p, scriptObject[LookupField.parentLookupObject].externalId)
                 = Prop(row, LookupField.fullName__r)}
    ELSE {p \in ParentRows : Prop(p, <<"Id">>) = Prop(row, LookupField.nameId)}

\* a value made by cachedCSVContent.nextId
IsPlaceholder(value) == Len(value) = 2 /\ value[1] = "ID"

\* the rows of the file with exactly one of the two lookup columns, holding a
\* value, that refer to no parent row
UnresolvedRows ==
    {i \in 1..Len(currentFileMap) :
        LET row == currentFileMap[i].value
            has__r == hasOwnProperty(row, LookupField.fullName__r)
            hasId == hasOwnProperty(row, LookupField.nameId)
        IN  /\ has__r # hasId
            /\ Truthy(Prop(row, IF has__r THEN LookupField.fullName__r
                                ELSE LookupField.nameId))
            /\ ParentsOf(row) = {}}

\* C23: in the missing-lookup-column step, for a reference field whose parent
\* has a task, a row with neither lookup column gets a placeholder in both and
\* no issue; a row with exactly one of them, holding a value, gets the other
\* from the parent row it refers to and no issue, or, with no such parent row,
\* a placeholder in the missing column and exactly one issue
C23_MissingLookupColumns ==
    [][ LookupStep
        => /\ Len(AddedRepairIssues) = Cardinality(UnresolvedRows)
           /\ \A i \in 1..Len(currentFileMap) :
                 LET row == currentFileMap[i].value
                     after == currentFileMapAfter[i].value
                     has__r == hasOwnProperty(row, LookupField.fullName__r)
                     hasId == hasOwnProperty(row, LookupField.nameId)
                     present == IF has__r THEN LookupField.fullName__r
                                ELSE LookupField.nameId
                     missing == IF has__r THEN LookupField.nameId
                                ELSE LookupField.fullName__r
                     issuesOfRow ==
                         {k \in 1..Len(AddedRepairIssues) :
                             /\ AddedRepairIssues[k].childSObject = CsvTask
                             /\ AddedRepairIssues[k].childField = present
                             /\ AddedRepairIssues[k].childValue = Prop(row, present)}
                 IN  IF ~has__r /\ ~hasId
                     THEN /\ IsPlaceholder(Prop(after, LookupField.nameId))
                          /\ IsPlaceholder(Prop(after, LookupField.fullName__r))
                     ELSE IF has__r # hasId /\ Truthy(Prop(row, present))
                     THEN IF ParentsOf(row) # {}
                          THEN /\ \E p \in ParentsOf(row) :
                                     Prop(after, missing)
                                         = Prop(p, IF has__r THEN <<"Id">>
                                                   ELSE scriptObject[LookupField.parentLookupObject].externalId)
                               /\ issuesOfRow = {}
                          ELSE /\ IsPlaceholder(Prop(after, missing))
                               /\ issuesOfRow # {}
                     ELSE after = row ]_vars

\* the step has filled the lookup-id column of the comments from their
\* relationship column: one from its parent row, one, whose parent is
\* unknown, with a placeholder and an issue
C23_Witness ==
    /\ csvPc.pc = "lookup"
    /\ CsvTask = "CaseComment"
    /\ Len(csvPc.issues) = 1
    /\ csvPc.issues[1].childValue = <<"S9">>
    /\ \E i \in 1..Len(CachedFile("CaseComment")) :
          IsPlaceholder(Prop(CachedFile("CaseComment")[i].value, <<"ParentId">>))
    /\ \E i \in 1..Len(CachedFile("CaseComment")) :
          Prop(CachedFile("CaseComment")[i].value, <<"ParentId">>) = <<"c1">>

\* ------------------------------------------------------------------------
\* Properties of processCSVFiles as a whole
\* ------------------------------------------------------------------------
\* the job has read a source file in full or written one: a repairCSV or a
\* saveCachedCsvDataFiles has run
RepairedOrSaved ==
    \E i \in 1..Len(csvLog) : csvLog[i].op \in {"read", "write"}

FlatFileNotAsIs == sourceOrg.media = "File" /\ ~script.importCSVFilesAsIs

\* the job has validated or repaired nothing: no cached file, no updated
\* file name, no issue, no header or full read and no write of a source file
NothingValidatedOrRepaired ==
    /\ cachedCSVContent.csvDataCacheMap = <<>>
    /\ cachedCSVContent.updatedFilenames = {}
    /\ csvIssues = <<>>
    /\ \A p \in CsvPaths : Accesses({"readHeader", "read", "write"}, p) = 0

\* C25 as stated: unless the source is a flat file and import-as-is is off,
\* nothing is validated or repaired and no source file is written: the source
\* directory holds no file
C25_NoSourceFileWritten ==
    ~FlatFileNotAsIs
        => /\ NothingValidatedOrRepaired
           /\ \A p \in CsvPaths : ~MapHas(disk, p)

\* C25: unless the source is a flat file and import-as-is is off, nothing is
\* validated or repaired and no source file is written by the repair; with a
\* flat-file source, processCSVFiles still makes the source directory, as
\* copies of the input files that exist
C25_NoRepairUnlessFlatFileNotAsIs ==
    ~FlatFileNotAsIs
        => /\ NothingValidatedOrRepaired
           /\ \A name \in CsvNames :
                 IF sourceOrg.media = "File" /\ csvPc.pc # "load"
                    /\ MapHas(disk, csvFilename(name))
                 THEN /\ MapHas(disk, sourceCsvFilename(name))
                      /\ MapGet(disk, sourceCsvFilename(name))
                             = MapGet(disk, csvFilename(name))
                 ELSE ~MapHas(disk, sourceCsvFilename(name))

\* processCSVFiles has returned for a flat-file source imported as it is: the
\* source directory holds the copy of the Case file, nothing is cached
C25_Witness ==
    /\ sourceOrg.media = "File"
    /\ script.importCSVFilesAsIs
    /\ csvPc.pc = "done"
    /\ MapHas(disk, sourceCsvFilename("Case"))
    /\ NothingValidatedOrRepaired

\* the user says no in this step
Declines == csvPc.pc # "aborted" /\ csvPc'.pc = "aborted"

\* C34 as stated: when the user has said no at a confirmation point of
\* _validateAndRepairSourceCSVFiles, no source file has been written in the run
C34_NoWriteBeforeDecline ==
    csvPc.pc = "aborted" => \A p \in CsvPaths : Accesses({"write"}, p) = 0

\* C34: the user is asked at most once, after the validation if it found an
\* issue and else after saveCachedCsvDataFiles if the repair recorded one; on
\* a no after the validation no source file has been written, on a no after
\* the save each path of updatedFilenames has been written once, with the
\* rows the cache holds, and no other path has been written
C34_WritesBeforeDecline ==
    [][ Declines
        => /\ Len(csvIssues) > 0
           /\ ~csvPc.noAbortPrompt
           /\ disk' = disk
           /\ IF csvPc.pc = "prompt"
              THEN \A p \in CsvPaths : Accesses({"write"}, p) = 0
              ELSE /\ Flushed
                   /\ \A p \in CsvPaths :
                         IF p \in cachedCSVContent.updatedFilenames
                         THEN /\ Accesses({"write"}, p) = 1
                              /\ MapGet(disk, p)
                                     = MapValues(MapGet(cachedCSVContent.csvDataCacheMap, p))
                         ELSE Accesses({"write"}, p) = 0 ]_vars

\* the user has said no after the save, asked for the issues of the repair
\* alone: a repaired file is written
C34_Witness ==
    /\ csvPc.pc = "aborted"
    /\ ~csvPc.noAbortPrompt
    /\ Len(csvIssues) > 0
    /\ \E p \in CsvPaths : Accesses({"write"}, p) = 1

\* ------------------------------------------------------------------------
\* MigrationJobTask.createApiEngine
\* ------------------------------------------------------------------------
MaxBulkThreshold == 2

MaxAmountOfRecords == 3

\* the values of script.bulkApiVersionNumber a script can carry
BulkApiVersionNumbers == {1, 2, 3}

\* createApiEngine with a bulk engine from the threshold on
createApiEngine_FromThreshold(flags, amountOfRecordsToProcess) ==
    IF /\ amountOfRecordsToProcess >= flags.bulkThreshold
       /\ ~flags.alwaysUseRestApiToUpdateRecords
    THEN IF flags.bulkApiVersionNumber = 2 THEN "BulkApiV2_0Engine"
         ELSE "BulkApiV1_0Engine"
    ELSE "RestApiEngine"

\* createApiEngine(org, operation, amountOfRecordsToProcess, updateRecordId):
\* the class of the engine it makes
createApiEngine(flags, amountOfRecordsToProcess) ==
    IF /\ amountOfRecordsToProcess > flags.bulkThreshold
       /\ ~flags.alwaysUseRestApiToUpdateRecords
    THEN IF flags.bulkApiVersionNumber = 2 THEN "BulkApiV2_0Engine"
         ELSE "BulkApiV1_0Engine"
    ELSE "RestApiEngine"

\* the settings createApiEngine reads
EngineScriptFlags ==
    { [NoScriptFlags EXCEPT !.bulkThreshold = threshold,
                            !.alwaysUseRestApiToUpdateRecords = always,
                            !.bulkApiVersionNumber = version] :
        threshold \in 0..MaxBulkThreshold, always \in BOOLEAN,
        version \in BulkApiVersionNumbers }

\* a job that is set up, with no engine made yet
InitEngine ==
    /\ \E order \in Permutations_(CsvNames) :
          /\ objects = order
          /\ tasks = order
          /\ queryTasks = order
    /\ scriptObject = [name \in CsvNames |-> CsvScriptObject(name, {})]
    /\ lowerIndexForAnyObjects = 0
    /\ lowerIndexForReadonlyObjects = 0
    /\ setupPc = "done"
    /\ objectIndex = Len(objects)
    /\ iteration = 0
    /\ swapped = FALSE
    /\ pass = NoPass
    /\ RetrieveNotStarted
    /\ sourceOrg = [media |-> "Org", rows |-> [name \in CsvNames |-> <<>>]]
    /\ targetOrg = [media |-> "Org", rows |-> [name \in CsvNames |-> <<>>]]
    /\ script \in EngineScriptFlags
    /\ disk = <<>>
    /\ valueMappingFile = <<>>
    /\ fieldMappingFile = <<>>
    /\ csvValuesMapping = <<>>
    /\ cachedCSVContent = EmptyCachedCSVContent
    /\ csvIssues = <<>>
    /\ csvPc = NoCsvCall
    /\ csvLog = <<>>
    /\ apiEngine = <<>>

\* task.createApiEngine(org, operation, amountOfRecordsToProcess, updateRecordId)
\* of one task: this.apiEngine = new ...Engine(...)
CreateApiEngine ==
    /\ \E name \in Elems(tasks), amountOfRecordsToProcess \in 0..MaxAmountOfRecords :
          apiEngine' = MapSet(apiEngine, name,
                              [ engine |-> createApiEngine(script, amountOfRecordsToProcess),
                                amountOfRecordsToProcess |-> amountOfRecordsToProcess ])
    /\ UNCHANGED <<setupVars, retrieveVars, csvVars>>

NextEngine == CreateApiEngine

SpecEngine == InitEngine /\ [][NextEngine]_vars

\* C26: the engine of a task is a bulk engine exactly if it was made for more
\* records than script.bulkThreshold and the script does not set
\* alwaysUseRestApiToUpdateRecords: then the V2 engine for the version number
\* 2 and the V1 engine for any other; else, also for as many records as the
\* threshold, it is the REST engine
C26_BulkOverThreshold ==
    \A i \in 1..Len(apiEngine) :
        LET made == apiEngine[i].value
            bulk == /\ made.amountOfRecordsToProcess > script.bulkThreshold
                    /\ ~script.alwaysUseRestApiToUpdateRecords
        IN  /\ made.engine \in {"BulkApiV2_0Engine", "BulkApiV1_0Engine"} <=> bulk
            /\ made.engine = "BulkApiV2_0Engine" <=> bulk /\ script.bulkApiVersionNumber = 2
            /\ made.engine = "RestApiEngine" <=> ~bulk

\* under one script with the version number 3 a task with as many
\* records as the threshold has the REST engine, a task with one more a bulk one
C26_Witness ==
    /\ ~script.alwaysUseRestApiToUpdateRecords
    /\ script.bulkApiVersionNumber = 3
    /\ \E i, j \in 1..Len(apiEngine) :
          /\ apiEngine[i].value.amountOfRecordsToProcess = script.bulkThreshold
          /\ apiEngine[i].value.engine = "RestApiEngine"
          /\ apiEngine[j].value.amountOfRecordsToProcess = script.bulkThreshold + 1
          /\ apiEngine[j].value.engine = "BulkApiV1_0Engine"

\* ------------------------------------------------------------------------
\* Properties of a whole repairCSV
\* ------------------------------------------------------------------------
\* repairCSV of the task returns in this state: the loop over fieldsInQuery is
\* over, the file was not empty
RepairReturns ==
    /\ csvPc.pc = "lookup"
    /\ LookupTurns = {}
    /\ Len(currentFileMap) > 0

\* the reference fields of fieldsInQuery of the task whose parent has a task
ReferenceFieldsWithTask ==
    {f \in Elems(scriptObject[CsvTask].fieldsInQuery) :
        f.isReference /\ HasTask(f.parentLookupObject)}

\* C32: when repairCSV of a task with a non-empty file returns, every row of
\* the file has the lookup-id column and the relationship-path column of
\* every reference field of fieldsInQuery whose parent has a task
C32_BothLookupColumnsInEveryRow ==
    RepairReturns
    => \A f \in ReferenceFieldsWithTask :
          \A i \in 1..Len(currentFileMap) :
             /\ hasOwnProperty(currentFileMap[i].value, f.nameId)
             /\ hasOwnProperty(currentFileMap[i].value, f.fullName__r)

\* repairCSV has run for every task and no file is saved yet
AllRepaired == csvPc.pc = "save" /\ csvPc.fieldIndex = 0

\* the entity has a cached file
IsCached(name) == MapHas(cachedCSVContent.csvDataCacheMap, sourceCsvFilename(name))

\* the rows of the parent file, as repaired, whose external id is the value
\* the child row had in its relationship column of field f in the source file
ParentsByExternalId(name, f, i) ==
    LET parent == f.parentLookupObject
        value == Prop(CachedFile(name)[i].value, f.fullName__r)
    IN  IF SourceHasColumn(name, f.fullName__r) /\ Truthy(value) /\ IsCached(parent)
        THEN {j \in 1..Len(CachedFile(parent)) :
                 Prop(CachedFile(parent)[j].value, scriptObject[parent].externalId) = value}
        ELSE {}

\* the reference fields of fieldsInQuery of an entity whose parent has a task
ReferenceFieldsOf(name) ==
    {f \in Elems(scriptObject[name].fieldsInQuery) :
        f.isReference /\ HasTask(f.parentLookupObject)}

\* C36: when repairCSV has run for every task, a child row whose relationship
\* value is the external id of a row of the parent file holds the Id of that
\* parent row, as read or as made by the repair, in its lookup-id column
C36_LookupResolvedInAnyOrder ==
    AllRepaired
    => \A name \in CsvNames :
          IsCached(name)
          => \A f \in ReferenceFieldsOf(name) :
                \A i \in 1..Len(CachedFile(name)) :
                   \A j \in ParentsByExternalId(name, f, i) :
                      Prop(CachedFile(name)[i].value, f.nameId)
                          = Prop(CachedFile(f.parentLookupObject)[j].value, <<"Id">>)

\* ------------------------------------------------------------------------
\* Jobs with a field mapping file
\* ------------------------------------------------------------------------
MaxFieldMappingRows == 3

\* the rows a field mapping file can carry: ObjectName, FieldName, Target as
\* written in the file; an empty FieldName renames the entity
FieldMappingRules ==
    { << <<"Case">>, <<>>, <<"Kase">> >>,
      << <<"Case">>, <<"Type">>, <<"Kind">> >>,
      << <<"Case">>, <<"Subject">>, <<"Title">> >>,
      << <<" ", "Case">>, <<"Type", " ">>, <<" ", "Sort">> >>,
      << <<"Case", "Comment">>, <<"CommentBody">>, <<"Body">> >>,
      << <<"Case">>, <<"Type">>, <<>> >> }

\* one row of the field mapping file
FieldMappingRow(r) ==
    << [key |-> <<"ObjectName">>, value |-> r[1]],
       [key |-> <<"FieldName">>, value |-> r[2]],
       [key |-> <<"Target">>, value |-> r[3]] >>

\* the field mapping files: at most MaxFieldMappingRows different rows, in
\* any order
FieldMappingFiles ==
    LET rows == {FieldMappingRow(r) : r \in FieldMappingRules}
    IN  UNION { {f \in [1..n -> rows] : \A i, j \in 1..n : f[i] = f[j] => i = j} :
                n \in 0..MaxFieldMappingRows }

\* a job over the plain files with a field mapping file, before
\* processCSVFiles
InitFieldMapping ==
    /\ \E order \in Permutations_(CsvNames) :
          /\ objects = order
          /\ tasks = order
          /\ queryTasks = order
    /\ \E use \in [CsvNames -> BOOLEAN] :
          scriptObject = [name \in CsvNames |->
                             [CsvScriptObject(name, {}) EXCEPT !.useFieldMapping = use[name]]]
    /\ disk = CsvDisk({})
    /\ valueMappingFile = <<>>
    /\ fieldMappingFile \in FieldMappingFiles
    /\ lowerIndexForAnyObjects = 0
    /\ lowerIndexForReadonlyObjects = 0
    /\ setupPc = "done"
    /\ objectIndex = Len(objects)
    /\ iteration = 0
    /\ swapped = FALSE
    /\ pass = NoPass
    /\ RetrieveNotStarted
    /\ sourceOrg = [media |-> "File", rows |-> [name \in CsvNames |-> <<>>]]
    /\ targetOrg = [media |-> "Org", rows |-> [name \in CsvNames |-> <<>>]]
    /\ script = NoScriptFlags
    /\ apiEngine = <<>>
    /\ csvValuesMapping = <<>>
    /\ cachedCSVContent = EmptyCachedCSVContent
    /\ csvIssues = <<>>
    /\ csvPc = [NoCsvCall EXCEPT !.pc = "load"]
    /\ csvLog = <<>>

NextFieldMapping == ProcessCSVFiles

SpecFieldMapping == InitFieldMapping /\ [][NextFieldMapping]_vars

\* the rows of the field mapping file the load takes for the entity: object
\* name and target given, the entity of the script and with useFieldMapping
RowsOfEntity(name) ==
    {i \in 1..Len(fieldMappingFile) :
        /\ Truthy(Prop(fieldMappingFile[i], <<"ObjectName">>))
        /\ Truthy(Prop(fieldMappingFile[i], <<"Target">>))
        /\ trim(Prop(fieldMappingFile[i], <<"ObjectName">>)) = sObjectName(name)
        /\ scriptObject[name].useFieldMapping}

\* those of them that rename the entity
EntityRenames(name) ==
    {i \in RowsOfEntity(name) : ~Truthy(Prop(fieldMappingFile[i], <<"FieldName">>))}

\* those of them that rename the field
FieldRenames(name, fieldName) ==
    {i \in RowsOfEntity(name) :
        /\ Truthy(Prop(fieldMappingFile[i], <<"FieldName">>))
        /\ trim(Prop(fieldMappingFile[i], <<"FieldName">>)) = fieldName}

\* the fields the rows of the entity rename
RenamedFields(name) ==
    {trim(Prop(fieldMappingFile[i], <<"FieldName">>)) :
        i \in RowsOfEntity(name) \ EntityRenames(name)}

\* the target of the last of a set of rows
LastTarget(rows) ==
    trim(Prop(fieldMappingFile[CHOOSE r \in rows : \A q \in rows : q <= r], <<"Target">>))

\* the field mapping file is loaded
FieldMappingLoaded == csvPc.pc # "load" /\ Len(fieldMappingFile) > 0

\* C33: after the load, for an entity with a row that renames it and rows
\* that rename fields of it, script.sourceTargetFieldMapping holds the target
\* name of the entity and the target of every renamed field, in whatever
\* order the rows stand in the file
C33_LoadIndependentOfRowOrder ==
    FieldMappingLoaded
    => \A name \in CsvNames :
          EntityRenames(name) # {} /\ RenamedFields(name) # {}
          => /\ MapHas(script.sourceTargetFieldMapping, sObjectName(name))
             /\ LET objectFieldMapping ==
                        MapGet(script.sourceTargetFieldMapping, sObjectName(name))
                IN  /\ objectFieldMapping.targetSObjectName = LastTarget(EntityRenames(name))
                    /\ \A fieldName \in RenamedFields(name) :
                          /\ MapHas(objectFieldMapping.fieldMapping, fieldName)
                          /\ MapGet(objectFieldMapping.fieldMapping, fieldName)
                                 = LastTarget(FieldRenames(name, fieldName))

====
